---- MODULE Spec2Model ----
(***************************************************************************)
(* The memory lifecycle of LTM-SQL: the controller LTMSQL (awaken,         *)
(* startConversation, addMessage, endConversation, sleep), the stores      *)
(* behind Persona, Conversation, Memory and DreamstateUpdate, and the      *)
(* services MemoryProcessor and PersonaEvolver.                            *)
(*                                                                         *)
(* Every method of the controller is an async function.  A call runs       *)
(* synchronously up to its first await of a storage statement; the         *)
(* statement is applied to the store when it is issued (one connection,    *)
(* statements applied in the order they are issued) and the continuation   *)
(* after the await runs in a later step.  A task is one call in flight:    *)
(* task 0 is the call the caller is awaiting, the other tasks are            *)
(* calls somebody started without awaiting them (awaken starts             *)
(* startConversation that way).  Continuations of different tasks resume   *)
(* in any order.                                                           *)
(***************************************************************************)
EXTENDS Integers, Sequences, FiniteSets, TLC

VARIABLES
    isAwake,              \* LTMSQL.isAwake
    awakeningContext,     \* LTMSQL.awakeningContext
    persona,              \* LTMSQL.persona: a persona id, NoId for null
    currentConversation,  \* LTMSQL.currentConversation: a conversation id, NoId for null
    convObj,              \* the Conversation objects in memory, by conversation id
    conversations,        \* table conversations, by conversation id
    memories,             \* table memories, in insertion order
    personas,             \* table persona, by persona id
    updates,              \* table dreamstate_updates, in insertion order
    tasks,                \* the calls in flight
    ret,                  \* what the last awaited call returned or threw
    calls,                \* the number of calls the caller has made
    now                   \* the clock, in ticks of TickMinutes minutes

vars == <<isAwake, awakeningContext, persona, currentConversation, convObj,
          conversations, memories, personas, updates, tasks, ret, calls, now>>

---------------------------------------------------------------------------
\* Bounds of the model.
MaxCalls == 4
MaxTicks == 1
TickMinutes == 10

\* null for ids and times (ids are allocated from 1, the clock starts at 1).
NoId == 0
NoTime == 0

\* null, as a context and as a returned value
NullContext == [null |-> TRUE]
Nothing == [none |-> TRUE]
Idle == [op |-> "idle", pc |-> "idle"]
TaskIds == 0..MaxCalls
MainTask == 0

\* The inputs of addMessage: "" stands for a missing argument, LongText for a
\* text of LongTextLength characters holding no blank and no keyword.
LongText == "LONG"
LongTextLength == 1200
Messages ==
    {[role |-> "user", content |-> "help"], [role |-> "user", content |-> LongText],
     [role |-> "", content |-> "help"], [role |-> "user", content |-> ""]}

StrLen(s) ==
    CASE s = "" -> 0
      [] s = "user" -> 4
      [] s = "claude" -> 6
      [] s = "hello" -> 5
      [] s = "help" -> 4
      [] s = "error" -> 5
      [] s = LongText -> LongTextLength
      [] OTHER -> 9

Min(a, b) == IF a < b THEN a ELSE b
Max(a, b) == IF a > b THEN a ELSE b

RECURSIVE SumSeq(_)
SumSeq(s) == IF s = <<>> THEN 0 ELSE Head(s) + SumSeq(Tail(s))

\* does x occur in the sequence s
InSeq(x, s) == \E i \in 1..Len(s) : s[i] = x

\* [...new Set(tags)]: the first occurrence of each element, in order
RECURSIVE Unique(_)
Unique(s) ==
    IF s = <<>> THEN <<>>
    ELSE LET r == Unique(SubSeq(s, 1, Len(s) - 1))
             x == s[Len(s)]
         IN  IF InSeq(x, r) THEN r ELSE Append(r, x)

Reverse(s) == [i \in 1..Len(s) |-> s[Len(s) + 1 - i]]
FirstN(s, n) == SubSeq(s, 1, Min(n, Len(s)))

---------------------------------------------------------------------------
\* Conversation (models/Conversation.js)

\* new Conversation(null, new Date(), null, participants, '', context)
NewConversation(participants, t) ==
    [startTime |-> t, endTime |-> NoTime, participants |-> participants,
     rawText |-> <<>>, messages |-> <<>>]

\* Conversation.addMessage: push on messages, append "role: content\n" to rawText
\* an addMessage that restarts rawText at the new line, which C35 tells from
\* the code's
ConvAddMessage_RestartsText(c, role, content, t) ==
    [c EXCEPT !.messages = Append(@, [role |-> role, content |-> content]),
              !.rawText = <<[role |-> role, content |-> content]>>]

ConvAddMessage(c, role, content, t) ==
    [c EXCEPT !.messages = Append(@, [role |-> role, content |-> content]),
              !.rawText = Append(@, [role |-> role, content |-> content])]

\* Conversation.end
ConvEnd(c, t) == [c EXCEPT !.endTime = t]

\* the row Conversation.save writes (messages are not stored)
ConvRow(c) ==
    [start_time |-> c.startTime, end_time |-> c.endTime,
     participants |-> c.participants, raw_text |-> c.rawText]

\* the length of one line `${role}: ${content}\n` of rawText
LineLen(l) == StrLen(l.role) + 2 + StrLen(l.content) + 1

\* rawText.length
RawLen(rawText) == SumSeq([i \in 1..Len(rawText) |-> LineLen(rawText[i])])

\* Conversation.getDuration, in minutes; -1 stands for null
GetDuration(c) ==
    IF c.endTime = NoTime THEN -1 ELSE (c.endTime - c.startTime) * TickMinutes

\* `if (duration)`: the duration is neither null nor 0
HasDuration(c) == c.endTime # NoTime /\ c.endTime # c.startTime

---------------------------------------------------------------------------
\* MemoryProcessor (services/MemoryProcessor.js)

DefaultMaxLength == 500
ImportanceBase == 5
DurationBonusCap == 2
DurationBonusMinutes == 10
LongTextThreshold == 1000
MinImportance == 1
MaxImportance == 10
MinutesPerDay == 1440

commonKeywords ==
    <<"help", "question", "problem", "solution", "error", "fix", "learn",
      "code", "program", "software", "data", "api", "file", "system",
      "request", "information", "explain", "understand", "create", "build">>

\* summaryLower.includes(keyword) on one word of the model's texts: each of
\* them is a keyword itself or holds none
Includes(word, keyword) == word = keyword

\* The lines of rawText that lie wholly in the first maxLength characters.
RECURSIVE LinesWithin(_, _)
LinesWithin(rawText, room) ==
    IF rawText = <<>> \/ LineLen(Head(rawText)) > room THEN <<>>
    ELSE <<Head(rawText)>> \o LinesWithin(Tail(rawText), room - LineLen(Head(rawText)))

\* generateSummary: the whole transcript if it fits in maxLength characters,
\* else its first maxLength characters cut back to the last blank and "...";
\* without a transcript, the participants and the duration.  The line that
\* crosses the cut keeps only its "role:" (LongText holds no blank).
generateSummary(c, maxLength) ==
    IF RawLen(c.rawText) > 0
    THEN IF RawLen(c.rawText) <= maxLength
         THEN [kind |-> "text", lines |-> c.rawText, truncated |-> FALSE]
         ELSE [kind |-> "text", lines |-> LinesWithin(c.rawText, maxLength),
               truncated |-> TRUE]
    ELSE [kind |-> "meta", lines |-> <<>>, truncated |-> FALSE,
          participants |-> c.participants,
          duration |-> IF HasDuration(c) THEN [minutes |-> GetDuration(c)] ELSE Nothing]

\* a faulty calculateImportance without the cap on the duration bonus, which
\* C22 tells from the code's
calculateImportance_UncappedBonus(c) ==
    LET i1 == ImportanceBase
              + (IF HasDuration(c) THEN GetDuration(c) \div DurationBonusMinutes ELSE 0)
        i2 == i1 + (IF Len(c.participants) > 2 THEN 1 ELSE 0)
        i3 == i2 + (IF RawLen(c.rawText) > LongTextThreshold THEN 1 ELSE 0)
    IN  Min(Max(i3, MinImportance), MaxImportance)

\* calculateImportance
calculateImportance(c) ==
    LET duration == GetDuration(c)
        i1 == ImportanceBase
              + (IF HasDuration(c)
                 THEN Min(DurationBonusCap, duration \div DurationBonusMinutes) ELSE 0)
        i2 == i1 + (IF Len(c.participants) > 2 THEN 1 ELSE 0)
        i3 == i2 + (IF RawLen(c.rawText) > LongTextThreshold THEN 1 ELSE 0)
    IN  Min(Max(i3, MinImportance), MaxImportance)

\* conversation.startTime.toISOString().split('T')[0]
DateTag(t) == IF t * TickMinutes < MinutesPerDay THEN "2024-01-01" ELSE "2024-01-02"

SummaryIncludes(summary, keyword) ==
    IF summary.kind = "text"
    THEN \E i \in 1..Len(summary.lines) :
            \/ Includes(summary.lines[i].role, keyword)
            \/ Includes(summary.lines[i].content, keyword)
    ELSE \E i \in 1..Len(summary.participants) : Includes(summary.participants[i], keyword)

\* a faulty generateTags that puts the keywords first, which C28 tells from
\* the code's
generateTags_KeywordsFirst(c, summary) ==
    Unique(SelectSeq(commonKeywords, LAMBDA k : SummaryIncludes(summary, k))
           \o c.participants \o <<DateTag(c.startTime)>>)

\* generateTags
generateTags(c, summary) ==
    Unique(c.participants \o <<DateTag(c.startTime)>>
           \o SelectSeq(commonKeywords, LAMBDA k : SummaryIncludes(summary, k)))

\* a faulty clamp without the lower limit, which C10 tells from the code's
ClampImportance_NoFloor(i) == Min(i, MaxImportance)

\* Memory constructor (models/Memory.js): importance is clamped to 1..10
ClampImportance(i) == Min(Max(i, MinImportance), MaxImportance)

NewMemory(memoryId, conversationId, summary, importance, t, tags) ==
    [memoryId |-> memoryId, conversationId |-> conversationId, summary |-> summary,
     importance |-> ClampImportance(importance), timestamp |-> t, tags |-> tags]

\* the Memory processConversation builds from a conversation
ProcessedMemory(memoryId, conversationId, c, t) ==
    LET summary == generateSummary(c, DefaultMaxLength)
    IN  NewMemory(memoryId, conversationId, summary, calculateImportance(c), t,
                  generateTags(c, summary))

\* a faulty getRecent that reads the newest Memory only, which C29 tells from
\* the code's
GetRecent_OnlyNewest(n) == FirstN(Reverse(memories), 1)

\* a faulty getRecent that finds nothing, which C20 tells from the code's
GetRecent_Nothing(n) == <<>>

\* Memory.getRecent: ORDER BY timestamp DESC LIMIT n.  A Memory is stamped and
\* saved in one step, so the insertion order is the order of the timestamps.
GetRecent(n) == FirstN(Reverse(memories), n)

---------------------------------------------------------------------------
\* Persona (models/Persona.js).  Traits and values are kept in hundredths:
\* each stands for the double the code holds, rounded to two decimals.  The
\* doubles the evolver can reach from the default persona differ from these
\* decimals by less than 1e-15 (0.8 + 0.05 is 0.8500000000000001) and pass
\* the evolver's thresholds at the same evolutions as the decimals do.

defaultTraits ==
    [openness |-> 70, conscientiousness |-> 80, extraversion |-> 60,
     agreeableness |-> 75, neuroticism |-> 40]

defaultValues ==
    [honesty |-> 90, helpfulness |-> 85, knowledge |-> 80, efficiency |-> 75]

defaultPreferences ==
    [communicationStyle |-> "clear and concise", responseFormat |-> "structured",
     interactionPreference |-> "friendly professional"]

\* Persona.createDefault
DefaultPersona(personaId, t) ==
    [personaId |-> personaId, traits |-> defaultTraits, values |-> defaultValues,
     preferences |-> defaultPreferences, biography |-> <<[kind |-> "default biography"]>>,
     lastUpdated |-> t]

\* { ...old, ...new }
Spread(old, new) ==
    [k \in DOMAIN old \cup DOMAIN new |-> IF k \in DOMAIN new THEN new[k] ELSE old[k]]

\* Persona.loadMostRecent: ORDER BY last_updated DESC LIMIT 1; NoId when the
\* table is empty.  Rows with the same last_updated come in either order.
MostRecentPersonas ==
    {i \in DOMAIN personas : \A j \in DOMAIN personas :
        personas[j].lastUpdated <= personas[i].lastUpdated}

\* the state snapshot evolveDreamstate takes of a persona
Snapshot(p) ==
    [traits |-> p.traits, values |-> p.values, preferences |-> p.preferences,
     biography |-> p.biography]

---------------------------------------------------------------------------
\* PersonaEvolver (services/PersonaEvolver.js)

HighImportance == 8
TopTagCount == 3
ConscientiousnessGate == 90
ConscientiousnessStep == 5
NeuroticismCap == 80
NeuroticismStep == 3
AgreeablenessCap == 95
AgreeablenessStep == 2
HelpfulnessStep == 1
Ceiling == 100
NoChange == [none |-> TRUE]

\* all tags of the memories, in the order they are met
AllTags(mems) ==
    LET RECURSIVE Cat(_)
        Cat(ms) == IF ms = <<>> THEN <<>> ELSE Head(ms).tags \o Cat(Tail(ms))
    IN  Cat(mems)

TagCount(all, tag) == Cardinality({i \in 1..Len(all) : all[i] = tag})

\* .sort((a, b) => b[1] - a[1]): a stable sort of the keys by falling count
RECURSIVE SortByCount(_, _)
SortByCount(keys, all) ==
    IF keys = <<>> THEN <<>>
    ELSE LET best == CHOOSE i \in 1..Len(keys) :
                        /\ \A j \in 1..Len(keys) : TagCount(all, keys[j]) <= TagCount(all, keys[i])
                        /\ \A j \in 1..(i - 1) : TagCount(all, keys[j]) < TagCount(all, keys[i])
         IN  <<keys[best]>> \o SortByCount(SelectSeq(keys, LAMBDA k : k # keys[best]), all)

\* The number a tag spells if it is a canonical array index, as the tag "7"
\* is; -1 for the other tags of the model.
IndexValue(tag) == IF tag = "7" THEN 7 ELSE -1

\* keys that are array indices, in rising numeric order
RECURSIVE IndexKeys(_)
IndexKeys(keys) ==
    IF keys = <<>> THEN <<>>
    ELSE LET least == CHOOSE i \in 1..Len(keys) :
                         \A j \in 1..Len(keys) : IndexValue(keys[i]) <= IndexValue(keys[j])
         IN  <<keys[least]>> \o IndexKeys(SelectSeq(keys, LAMBDA k : k # keys[least]))

\* The order in which Object.entries lists the keys of tagCounts: the keys
\* that are array indices first, in rising numeric order, then the other keys
\* in the order they were first set.
EntryKeys(all) ==
    IndexKeys(SelectSeq(Unique(all), LAMBDA k : IndexValue(k) >= 0))
        \o SelectSeq(Unique(all), LAMBDA k : IndexValue(k) < 0)

sortedTags(mems) == FirstN(SortByCount(EntryKeys(AllTags(mems)), AllTags(mems)), TopTagCount)

highImportanceMemories(mems) == SelectSeq(mems, LAMBDA m : m.importance >= HighImportance)

\* faulty trait changes that raise conscientiousness whatever it is, which
\* C24 tells from the code's
TraitChanges_NoGate(p, mems) ==
    LET top == sortedTags(mems)
        c1 == IF highImportanceMemories(mems) # <<>>
              THEN [conscientiousness |->
                        Min(Ceiling, p.traits.conscientiousness + ConscientiousnessStep)]
              ELSE <<>>
        c2 == IF (InSeq("error", top) \/ InSeq("problem", top))
                 /\ p.traits.neuroticism < NeuroticismCap
              THEN [neuroticism |-> Min(NeuroticismCap, p.traits.neuroticism + NeuroticismStep)]
              ELSE <<>>
        c3 == IF (InSeq("solution", top) \/ InSeq("help", top))
                 /\ p.traits.agreeableness < AgreeablenessCap
              THEN [agreeableness |->
                        Min(AgreeablenessCap, p.traits.agreeableness + AgreeablenessStep)]
              ELSE <<>>
    IN  Spread(Spread(c1, c2), c3)

\* faulty trait changes that add the steps without Math.min, which C26 tells
\* from the code's
TraitChanges_NoCap(p, mems) ==
    LET top == sortedTags(mems)
        c1 == IF highImportanceMemories(mems) # <<>>
                 /\ p.traits.conscientiousness < ConscientiousnessGate
              THEN [conscientiousness |-> p.traits.conscientiousness + ConscientiousnessStep]
              ELSE <<>>
        c2 == IF (InSeq("error", top) \/ InSeq("problem", top))
                 /\ p.traits.neuroticism < NeuroticismCap
              THEN [neuroticism |-> p.traits.neuroticism + NeuroticismStep]
              ELSE <<>>
        c3 == IF (InSeq("solution", top) \/ InSeq("help", top))
                 /\ p.traits.agreeableness < AgreeablenessCap
              THEN [agreeableness |-> p.traits.agreeableness + AgreeablenessStep]
              ELSE <<>>
    IN  Spread(Spread(c1, c2), c3)

\* the trait changes identifyPersonaChanges suggests
TraitChanges(p, mems) ==
    LET top == sortedTags(mems)
        c1 == IF highImportanceMemories(mems) # <<>>
                 /\ p.traits.conscientiousness < ConscientiousnessGate
              THEN [conscientiousness |->
                        Min(Ceiling, p.traits.conscientiousness + ConscientiousnessStep)]
              ELSE <<>>
        c2 == IF (InSeq("error", top) \/ InSeq("problem", top))
                 /\ p.traits.neuroticism < NeuroticismCap
              THEN [neuroticism |-> Min(NeuroticismCap, p.traits.neuroticism + NeuroticismStep)]
              ELSE <<>>
        c3 == IF (InSeq("solution", top) \/ InSeq("help", top))
                 /\ p.traits.agreeableness < AgreeablenessCap
              THEN [agreeableness |->
                        Min(AgreeablenessCap, p.traits.agreeableness + AgreeablenessStep)]
              ELSE <<>>
    IN  Spread(Spread(c1, c2), c3)

\* the value changes: helpfulness rises only inside the agreeableness branch
ValueChanges(p, mems) ==
    LET top == sortedTags(mems)
    IN  IF (InSeq("solution", top) \/ InSeq("help", top))
           /\ p.traits.agreeableness < AgreeablenessCap
        THEN [helpfulness |-> Min(Ceiling, p.values.helpfulness + HelpfulnessStep)]
        ELSE <<>>

\* a faulty identifyPersonaChanges without the test for no memories, which
\* C23 tells from the code's
identifyPersonaChanges_NoEmptyTest(p, mems) ==
    [description |-> "Persona evolved based on recent experiences",
     justification |-> [text |-> "Based on recent memories", count |-> Len(mems),
                        high |-> Len(highImportanceMemories(mems))],
     traits |-> TraitChanges(p, mems),
     values |-> ValueChanges(p, mems),
     preferences |-> <<>>,
     biography |-> IF highImportanceMemories(mems) # <<>>
                   THEN [text |-> Append(p.biography, highImportanceMemories(mems)[1].summary)]
                   ELSE NoChange]

\* identifyPersonaChanges
identifyPersonaChanges(p, mems) ==
    IF mems = <<>>
    THEN [description |-> "No changes made due to lack of new experiences",
          justification |-> [text |-> "No recent memories to process", count |-> 0, high |-> 0],
          traits |-> <<>>, values |-> <<>>, preferences |-> <<>>, biography |-> NoChange]
    ELSE [description |-> "Persona evolved based on recent experiences",
          justification |-> [text |-> "Based on recent memories", count |-> Len(mems),
                             high |-> Len(highImportanceMemories(mems))],
          traits |-> TraitChanges(p, mems),
          values |-> ValueChanges(p, mems),
          preferences |-> <<>>,
          biography |-> IF highImportanceMemories(mems) # <<>>
                        THEN [text |-> Append(p.biography, highImportanceMemories(mems)[1].summary)]
                        ELSE NoChange]

\* a faulty application of the changes that sets the traits to the changed
\* ones alone, which C30 tells from the code's
Evolved_ReplacesTraits(p, changes, t) ==
    [p EXCEPT !.traits = changes.traits,
              !.values = Spread(@, changes.values),
              !.preferences = Spread(@, changes.preferences),
              !.biography = IF changes.biography = NoChange THEN @ ELSE changes.biography.text,
              !.lastUpdated = t]

\* the persona after evolveDreamstate applied the changes (updateTraits,
\* updateValues and updatePreferences always run and stamp lastUpdated)
Evolved(p, changes, t) ==
    [p EXCEPT !.traits = Spread(@, changes.traits),
              !.values = Spread(@, changes.values),
              !.preferences = Spread(@, changes.preferences),
              !.biography = IF changes.biography = NoChange THEN @ ELSE changes.biography.text,
              !.lastUpdated = t]

\* a faulty update that records the state before as the state after, which
\* C14 tells from the code's
NewUpdate_StaleNewState(updateId, p, changes, previousState, t) ==
    [updateId |-> updateId, personaId |-> p.personaId,
     description |-> changes.description, justification |-> changes.justification,
     previousState |-> previousState, newState |-> previousState, timestamp |-> t]

\* new DreamstateUpdate(null, persona.personaId, description, justification, previousState, newState)
NewUpdate(updateId, p, changes, previousState, t) ==
    [updateId |-> updateId, personaId |-> p.personaId,
     description |-> changes.description, justification |-> changes.justification,
     previousState |-> previousState, newState |-> Snapshot(p), timestamp |-> t]

\* the keys getDiff lists of one of the three maps: the keys of the new map
\* whose value is not the previous one (a key the previous map lacks reads
\* as undefined there)
DiffOf(previous, new) ==
    [k \in {j \in DOMAIN new : j \notin DOMAIN previous \/ previous[j] # new[j]} |->
        [previous |-> IF k \in DOMAIN previous THEN previous[k] ELSE Nothing,
         new |-> new[k]]]

\* a faulty getDiff that lists every key of the new maps, which C32 tells
\* from the code's
getDiff_EveryKey(u) ==
    [traits |-> [k \in DOMAIN u.newState.traits |->
                    [previous |-> u.previousState.traits[k], new |-> u.newState.traits[k]]],
     values |-> DiffOf(u.previousState.values, u.newState.values),
     preferences |-> DiffOf(u.previousState.preferences, u.newState.preferences),
     biography |-> IF u.previousState.biography # u.newState.biography
                   THEN [previous |-> u.previousState.biography, new |-> u.newState.biography]
                   ELSE NoChange]

\* DreamstateUpdate.getDiff (both states of an update the evolver made hold
\* the three maps, so the tests for their presence pass)
getDiff(u) ==
    [traits |-> DiffOf(u.previousState.traits, u.newState.traits),
     values |-> DiffOf(u.previousState.values, u.newState.values),
     preferences |-> DiffOf(u.previousState.preferences, u.newState.preferences),
     biography |-> IF u.previousState.biography # u.newState.biography
                   THEN [previous |-> u.previousState.biography, new |-> u.newState.biography]
                   ELSE NoChange]

---------------------------------------------------------------------------
\* Stores (utils/db.js and the models' queries)

\* INSERT OR REPLACE of one row under its key
Save(table, id, row) ==
    [k \in DOMAIN table \cup {id} |-> IF k = id THEN row ELSE table[k]]

\* ORDER BY importance DESC, timestamp DESC
RECURSIVE ByImportance(_)
ByImportance(ms) ==
    IF ms = <<>> THEN <<>>
    ELSE LET best == CHOOSE i \in 1..Len(ms) :
                        /\ \A j \in 1..Len(ms) : ms[j].importance <= ms[i].importance
                        /\ \A j \in (i + 1)..Len(ms) : ms[j].importance < ms[i].importance
         IN  <<ms[best]>> \o ByImportance(SelectSeq(ms, LAMBDA m : m.memoryId # ms[best].memoryId))

\* Memory.getImportant
GetImportant(threshold, limit) ==
    FirstN(ByImportance(SelectSeq(memories, LAMBDA m : m.importance >= threshold)), limit)

\* DreamstateUpdate.getByPersona: the persona's updates, latest first
GetByPersona(personaId, limit) ==
    FirstN(Reverse(SelectSeq(updates, LAMBDA u : u.personaId = personaId)), limit)

\* AwakeningService.awaken: the Memories as the context shows them
formattedMemories(rows) ==
    [i \in 1..Len(rows) |->
        [id |-> rows[i].memoryId, summary |-> rows[i].summary,
         importance |-> rows[i].importance, when |-> rows[i].timestamp,
         tags |-> rows[i].tags]]

\* AwakeningService.awaken: the updates as the context shows them, each with
\* its getDiff
formattedUpdates(rows) ==
    [i \in 1..Len(rows) |->
        [when |-> rows[i].timestamp, description |-> rows[i].description,
         justification |-> rows[i].justification, changes |-> getDiff(rows[i])]]

---------------------------------------------------------------------------
\* LTMSQL (core/LTMSQL.js)

recentMemoriesLimit == 5
importantMemoriesThreshold == 8
importantMemoriesLimit == 5
recentUpdatesLimit == 3
sleepRecentMemoriesLimit == 10

DefaultParticipants == <<"user", "claude">>
ParticipantLists == {DefaultParticipants, <<"user", "claude", "help">>}

Init ==
    /\ isAwake = FALSE
    /\ awakeningContext = NullContext
    /\ persona = NoId
    /\ currentConversation = NoId
    /\ convObj = <<>>
    /\ conversations = <<>>
    /\ memories = <<>>
    /\ personas = <<>>
    /\ updates = <<>>
    /\ tasks = [t \in TaskIds |-> Idle]
    /\ ret = [op |-> "none", kind |-> "none", value |-> Nothing, warning |-> ""]
    /\ calls = 0
    /\ now = 1

controllerVars == <<isAwake, awakeningContext, persona, currentConversation>>
convVars == <<convObj, conversations>>
storeVars == <<memories, personas, updates>>
clockVars == <<calls, now>>

\* ret while a call is in flight (value: its arguments), and once it has
\* returned or thrown (value: what it returned, warning: what it warned of)
Pending(op, args, warning) == [op |-> op, kind |-> "pending", value |-> args, warning |-> warning]
Result(op, kind, value, warning) == [op |-> op, kind |-> kind, value |-> value, warning |-> warning]

\* the call of task t returns (kind "ok") or throws (kind "error")
Finish(t, kind, value) ==
    /\ tasks' = [tasks EXCEPT ![t] = Idle]
    /\ ret' = IF t = MainTask THEN Result(tasks[t].op, kind, value, ret.warning) ELSE ret

\* a loadMostRecent that finds no row, which C36 tells from the code's
LoadMostRecent_FindsNone(row) == row = NoId

\* Persona.loadMostRecent as issued now: the id of the row read, NoId for none
LoadMostRecent(row) ==
    IF personas = <<>> THEN row = NoId ELSE row \in MostRecentPersonas

\* endConversation up to its first await, the conversation being open:
\* this.currentConversation.end(); this.currentConversation.save()
EndObjs == [convObj EXCEPT ![currentConversation] = ConvEnd(@, now)]
EndRows == Save(conversations, currentConversation, ConvRow(EndObjs[currentConversation]))

\* startConversation from `new Conversation` to the await of its save
StartObjs(participants) == Append(convObj, NewConversation(participants, now))
StartRows(participants) ==
    Save(conversations, Len(convObj) + 1, ConvRow(NewConversation(participants, now)))

\* startConversation(participants) up to its first await, run as task t
StartPrefix(t, participants, otherTasks) ==
    IF currentConversation # NoId
    THEN /\ convObj' = EndObjs
         /\ conversations' = EndRows
         /\ currentConversation' = currentConversation
         /\ tasks' = [otherTasks EXCEPT ![t] =
                [op |-> "startConversation", pc |-> "end.save", participants |-> participants]]
    ELSE /\ convObj' = StartObjs(participants)
         /\ conversations' = StartRows(participants)
         /\ currentConversation' = Len(convObj) + 1
         /\ tasks' = [otherTasks EXCEPT ![t] =
                [op |-> "startConversation", pc |-> "start.save", participants |-> participants]]

---------------------------------------------------------------------------
\* The calls of the caller, each awaited before the next is made.

CallerReady == tasks[MainTask] = Idle /\ calls < MaxCalls

\* initialize(): Persona.ensureExists() is awaited
CallInitialize ==
    /\ CallerReady
    /\ calls' = calls + 1
    /\ \E row \in {NoId} \cup DOMAIN personas :
          /\ LoadMostRecent(row)
          /\ tasks' = [tasks EXCEPT ![MainTask] =
                [op |-> "initialize", pc |-> "loadMostRecent", row |-> row]]
    /\ ret' = Pending("initialize", Nothing, "")
    /\ UNCHANGED <<controllerVars, convVars, storeVars, now>>

\* a faulty awaken() that lets go of the conversation held, which C4 tells
\* from the code's
AwakenWhenAwake_DropsConversation ==
    /\ isAwake
    /\ ret' = Result("awaken", "ok", awakeningContext, "System is already awake")
    /\ currentConversation' = NoId
    /\ UNCHANGED <<isAwake, awakeningContext, persona, convVars, storeVars, tasks, now>>

\* awaken() while awake: the context held is returned
AwakenWhenAwake ==
    /\ isAwake
    /\ ret' = Result("awaken", "ok", awakeningContext, "System is already awake")
    /\ UNCHANGED <<controllerVars, convVars, storeVars, tasks, now>>

\* awaken() while asleep: AwakeningService.awaken is awaited
AwakenWhenAsleep ==
    /\ ~isAwake
    /\ \E row \in {NoId} \cup DOMAIN personas :
          /\ LoadMostRecent(row)
          /\ tasks' = [tasks EXCEPT ![MainTask] =
                [op |-> "awaken", pc |-> "loadMostRecent", row |-> row]]
    /\ ret' = Pending("awaken", Nothing, "")
    /\ UNCHANGED <<controllerVars, convVars, storeVars, now>>

CallAwaken ==
    /\ CallerReady
    /\ calls' = calls + 1
    /\ IF isAwake THEN AwakenWhenAwake ELSE AwakenWhenAsleep

CallStartConversation ==
    /\ CallerReady
    /\ calls' = calls + 1
    /\ \E participants \in ParticipantLists :
          /\ StartPrefix(MainTask, participants, tasks)
          /\ ret' = Pending("startConversation", [participants |-> participants],
                            IF currentConversation # NoId
                            THEN "Ending existing conversation before starting a new one"
                            ELSE "")
    /\ UNCHANGED <<isAwake, awakeningContext, persona, storeVars, now>>

\* addMessage without a conversation throws
AddMessageNoConversation ==
    /\ currentConversation = NoId
    /\ ret' = Result("addMessage", "error", [error |-> "No active conversation"], "")
    /\ UNCHANGED <<controllerVars, convVars, storeVars, tasks, now>>

\* addMessage(role, content): Conversation.addMessage, then save() is awaited
AddMessageToCurrent(role, content) ==
    /\ currentConversation # NoId
    /\ convObj' = [convObj EXCEPT ![currentConversation] = ConvAddMessage(@, role, content, now)]
    /\ conversations' =
          Save(conversations, currentConversation, ConvRow(convObj'[currentConversation]))
    /\ tasks' = [tasks EXCEPT ![MainTask] = [op |-> "addMessage", pc |-> "add.save"]]
    /\ ret' = Pending("addMessage", [role |-> role, content |-> content], "")
    /\ UNCHANGED <<controllerVars, storeVars, now>>

CallAddMessage ==
    /\ CallerReady
    /\ calls' = calls + 1
    /\ \E m \in Messages :
          IF currentConversation = NoId
          THEN AddMessageNoConversation
          ELSE AddMessageToCurrent(m.role, m.content)

\* a faulty endConversation() that throws without a conversation, which C6
\* tells from the code's
EndConversationNone_Throws ==
    /\ currentConversation = NoId
    /\ ret' = Result("endConversation", "error", [error |-> "No active conversation to end"], "")
    /\ UNCHANGED <<controllerVars, convVars, storeVars, tasks, now>>

\* endConversation() without a conversation returns null
EndConversationNone ==
    /\ currentConversation = NoId
    /\ ret' = Result("endConversation", "ok", NullContext, "No active conversation to end")
    /\ UNCHANGED <<controllerVars, convVars, storeVars, tasks, now>>

\* endConversation() with a conversation: end(), then save() is awaited
EndConversationOpen(t, op) ==
    /\ currentConversation # NoId
    /\ convObj' = EndObjs
    /\ conversations' = EndRows
    /\ tasks' = [tasks EXCEPT ![t] = [op |-> op, pc |-> "end.save"]]

CallEndConversation ==
    /\ CallerReady
    /\ calls' = calls + 1
    /\ IF currentConversation = NoId
       THEN EndConversationNone
       ELSE /\ EndConversationOpen(MainTask, "endConversation")
            /\ ret' = Pending("endConversation", Nothing, "")
            /\ UNCHANGED <<controllerVars, storeVars, now>>

\* a faulty sleep() that lets go of the conversation held while asleep, which
\* C7 tells from the code's
SleepWhenAsleep_DropsConversation ==
    /\ ~isAwake
    /\ ret' = Result("sleep", "ok", NullContext, "System is already asleep")
    /\ currentConversation' = NoId
    /\ UNCHANGED <<isAwake, awakeningContext, persona, convVars, storeVars, tasks, now>>

\* sleep() while asleep returns null
SleepWhenAsleep ==
    /\ ~isAwake
    /\ ret' = Result("sleep", "ok", NullContext, "System is already asleep")
    /\ UNCHANGED <<controllerVars, convVars, storeVars, tasks, now>>

\* sleep() while awake: endConversation() is awaited if a conversation is
\* held, else Memory.getRecent
SleepWhenAwake ==
    /\ isAwake
    /\ IF currentConversation # NoId
       THEN EndConversationOpen(MainTask, "sleep")
       ELSE /\ tasks' = [tasks EXCEPT ![MainTask] =
                  [op |-> "sleep", pc |-> "sleep.getRecent",
                   recent |-> GetRecent(sleepRecentMemoriesLimit)]]
            /\ UNCHANGED convVars
    /\ ret' = Pending("sleep", Nothing, "")
    /\ UNCHANGED <<controllerVars, storeVars, now>>

CallSleep ==
    /\ CallerReady
    /\ calls' = calls + 1
    /\ IF isAwake THEN SleepWhenAwake ELSE SleepWhenAsleep

\* getAwakeningPrompt(): throws unless awake with a context
CallGetAwakeningPrompt ==
    /\ CallerReady
    /\ calls' = calls + 1
    /\ ret' = IF ~isAwake \/ awakeningContext = NullContext
              THEN Result("getAwakeningPrompt", "error", [error |-> "System is not awake"], "")
              ELSE Result("getAwakeningPrompt", "ok", [prompt |-> awakeningContext], "")
    /\ UNCHANGED <<controllerVars, convVars, storeVars, tasks, now>>

---------------------------------------------------------------------------
\* The continuations: task t resumes after the statement it awaited.

At(t, op, pc) == tasks[t].op = op /\ tasks[t].pc = pc

\* a call that throws: the awaited call rejects, a call nobody awaits is lost
Throw(t, error) == Finish(t, "error", [error |-> error])

\* Persona.ensureExists, the row read: createDefault() saves a new persona if
\* there was none
EnsureExistsLoaded(t, next) ==
    IF tasks[t].row = NoId
    THEN /\ personas' = Append(personas, DefaultPersona(Len(personas) + 1, now))
         /\ tasks' = [tasks EXCEPT ![t] =
                [op |-> tasks[t].op, pc |-> "createDefault", row |-> Len(personas) + 1]]
         /\ UNCHANGED persona
    ELSE next

\* initialize(): this.persona = await Persona.ensureExists()
InitializeLoaded(t) ==
    /\ At(t, "initialize", "loadMostRecent")
    /\ EnsureExistsLoaded(t, /\ persona' = tasks[t].row
                             /\ UNCHANGED personas
                             /\ Finish(t, "ok", [id |-> tasks[t].row]))
    /\ IF tasks[t].row = NoId THEN ret' = ret ELSE TRUE
    /\ UNCHANGED <<isAwake, awakeningContext, currentConversation, convVars,
                   memories, updates, clockVars>>

InitializeCreated(t) ==
    /\ At(t, "initialize", "createDefault")
    /\ persona' = tasks[t].row
    /\ Finish(t, "ok", [id |-> tasks[t].row])
    /\ UNCHANGED <<isAwake, awakeningContext, currentConversation, convVars, storeVars, clockVars>>

\* AwakeningService.awaken: the persona is there, Memory.getRecent is awaited
AwakenGetRecent(t) ==
    tasks' = [tasks EXCEPT ![t] =
        [op |-> "awaken", pc |-> "getRecent", p |-> tasks[t].row,
         recentMemories |-> formattedMemories(GetRecent(recentMemoriesLimit))]]

AwakenLoaded(t) ==
    /\ At(t, "awaken", "loadMostRecent")
    /\ EnsureExistsLoaded(t, /\ AwakenGetRecent(t)
                             /\ UNCHANGED <<persona, personas>>)
    /\ UNCHANGED <<isAwake, awakeningContext, currentConversation, convVars,
                   memories, updates, ret, clockVars>>

AwakenCreated(t) ==
    /\ At(t, "awaken", "createDefault")
    /\ AwakenGetRecent(t)
    /\ UNCHANGED <<controllerVars, convVars, storeVars, ret, clockVars>>

\* Memory.getImportant is awaited
AwakenRecent(t) ==
    /\ At(t, "awaken", "getRecent")
    /\ tasks' = [tasks EXCEPT ![t] =
          [op |-> "awaken", pc |-> "getImportant", p |-> tasks[t].p,
           recentMemories |-> tasks[t].recentMemories,
           importantMemories |->
               formattedMemories(GetImportant(importantMemoriesThreshold, importantMemoriesLimit))]]
    /\ UNCHANGED <<controllerVars, convVars, storeVars, ret, clockVars>>

\* DreamstateUpdate.getByPersona is awaited; the context is built from the
\* persona object loaded by ensureExists
AwakenImportant(t) ==
    /\ At(t, "awaken", "getImportant")
    /\ tasks' = [tasks EXCEPT ![t] =
          [op |-> "awaken", pc |-> "getByPersona",
           context |->
              [persona |-> [id |-> tasks[t].p] @@ Snapshot(personas[tasks[t].p]),
               recentMemories |-> tasks[t].recentMemories,
               importantMemories |-> tasks[t].importantMemories,
               recentUpdates |->
                   formattedUpdates(GetByPersona(tasks[t].p, recentUpdatesLimit))]]]
    /\ UNCHANGED <<controllerVars, convVars, storeVars, ret, clockVars>>

\* awaken(), the context assembled: awakeningContext and isAwake are set and
\* startConversation(['user', 'claude']) is called without being awaited, so
\* it runs to its first await as a task of its own and awaken() returns
AwakenAssembled(t) ==
    /\ At(t, "awaken", "getByPersona")
    /\ LET context == tasks[t].context @@ [awakeningTime |-> now]
       IN  /\ awakeningContext' = context
           /\ isAwake' = TRUE
           /\ \E b \in TaskIds \ {MainTask} :
                 /\ tasks[b] = Idle
                 /\ \A c \in TaskIds \ {MainTask} : tasks[c] = Idle => b <= c
                 /\ StartPrefix(b, DefaultParticipants, [tasks EXCEPT ![t] = Idle])
           /\ ret' = IF t = MainTask THEN Result("awaken", "ok", context, "") ELSE ret
    /\ UNCHANGED <<persona, storeVars, clockVars>>

\* startConversation, its conversation saved: the id of
\* this.currentConversation is read for the log and the conversation returned
StartSaved(t) ==
    /\ At(t, "startConversation", "start.save")
    /\ IF currentConversation = NoId
       THEN Throw(t, "TypeError")
       ELSE Finish(t, "ok", [id |-> currentConversation])
    /\ UNCHANGED <<controllerVars, convVars, storeVars, clockVars>>

\* addMessage, the conversation saved: this.currentConversation is returned
AddSaved(t) ==
    /\ At(t, "addMessage", "add.save")
    /\ Finish(t, "ok", [id |-> currentConversation])
    /\ UNCHANGED <<controllerVars, convVars, storeVars, clockVars>>

\* endConversation, the ended conversation saved: the id of
\* this.currentConversation is read for the log, and processConversation
\* builds a Memory from this.currentConversation and awaits its save
EndSaved(t) ==
    /\ tasks[t].pc = "end.save"
    /\ IF currentConversation = NoId
       THEN /\ Throw(t, "TypeError")
            /\ UNCHANGED memories
       ELSE /\ memories' = Append(memories,
                  ProcessedMemory(Len(memories) + 1, currentConversation,
                                  convObj[currentConversation], now))
            /\ tasks' = [tasks EXCEPT ![t] = [@ EXCEPT !.pc = "end.memory"]
                                              @@ [memory |-> Len(memories) + 1]]
            /\ ret' = ret
    /\ UNCHANGED <<controllerVars, convVars, personas, updates, clockVars>>

\* endConversation, the Memory saved: this.currentConversation = null and the
\* Memory is returned to the caller, which is the caller of the controller,
\* startConversation or sleep
EndMemorySaved(t) ==
    /\ tasks[t].pc = "end.memory"
    /\ CASE tasks[t].op = "endConversation" ->
              /\ currentConversation' = NoId
              /\ Finish(t, "ok", [id |-> tasks[t].memory])
              /\ UNCHANGED convVars
         [] tasks[t].op = "startConversation" ->
              /\ convObj' = StartObjs(tasks[t].participants)
              /\ conversations' = StartRows(tasks[t].participants)
              /\ currentConversation' = Len(convObj) + 1
              /\ tasks' = [tasks EXCEPT ![t] =
                    [op |-> "startConversation", pc |-> "start.save",
                     participants |-> tasks[t].participants]]
              /\ ret' = ret
         [] tasks[t].op = "sleep" ->
              /\ currentConversation' = NoId
              /\ tasks' = [tasks EXCEPT ![t] =
                    [op |-> "sleep", pc |-> "sleep.getRecent",
                     recent |-> GetRecent(sleepRecentMemoriesLimit)]]
              /\ ret' = ret
              /\ UNCHANGED convVars
    /\ UNCHANGED <<isAwake, awakeningContext, persona, storeVars, clockVars>>

\* sleep, the recent memories read: evolveDreamstate(this.persona, ...) throws
\* on a null persona, else changes the persona object and awaits its save
SleepRecent(t) ==
    /\ At(t, "sleep", "sleep.getRecent")
    /\ IF persona = NoId
       THEN /\ Throw(t, "Persona cannot be null")
            /\ UNCHANGED personas
       ELSE LET p == personas[persona]
                changes == identifyPersonaChanges(p, tasks[t].recent)
            IN  /\ personas' = [personas EXCEPT ![persona] = Evolved(p, changes, now)]
                /\ tasks' = [tasks EXCEPT ![t] =
                      [op |-> "sleep", pc |-> "evolve.persona", p |-> persona,
                       changes |-> changes, previousState |-> Snapshot(p)]]
                /\ ret' = ret
    /\ UNCHANGED <<controllerVars, convVars, memories, updates, clockVars>>

\* evolveDreamstate, the persona saved: the DreamstateUpdate is built from the
\* two snapshots and its save awaited
EvolvePersonaSaved(t) ==
    /\ At(t, "sleep", "evolve.persona")
    /\ updates' = Append(updates,
          NewUpdate(Len(updates) + 1, personas[tasks[t].p], tasks[t].changes,
                    tasks[t].previousState, now))
    /\ tasks' = [tasks EXCEPT ![t] =
          [op |-> "sleep", pc |-> "evolve.update", update |-> Len(updates) + 1]]
    /\ UNCHANGED <<controllerVars, convVars, memories, personas, ret, clockVars>>

\* a faulty end of sleep() that keeps the context, which C8 tells from the
\* code's
SleepEvolved_KeepsContext(t) ==
    /\ At(t, "sleep", "evolve.update")
    /\ isAwake' = FALSE
    /\ Finish(t, "ok", [id |-> tasks[t].update])
    /\ UNCHANGED <<awakeningContext, persona, currentConversation, convVars, storeVars, clockVars>>

\* sleep, the DreamstateUpdate saved: the context is dropped, the controller
\* is asleep and the update is returned
SleepEvolved(t) ==
    /\ At(t, "sleep", "evolve.update")
    /\ awakeningContext' = NullContext
    /\ isAwake' = FALSE
    /\ Finish(t, "ok", [id |-> tasks[t].update])
    /\ UNCHANGED <<persona, currentConversation, convVars, storeVars, clockVars>>

Resume(t) ==
    \/ InitializeLoaded(t)
    \/ InitializeCreated(t)
    \/ AwakenLoaded(t)
    \/ AwakenCreated(t)
    \/ AwakenRecent(t)
    \/ AwakenImportant(t)
    \/ AwakenAssembled(t)
    \/ StartSaved(t)
    \/ AddSaved(t)
    \/ EndSaved(t)
    \/ EndMemorySaved(t)
    \/ SleepRecent(t)
    \/ EvolvePersonaSaved(t)
    \/ SleepEvolved(t)

\* TickMinutes minutes pass between two calls (a statement takes milliseconds)
Tick ==
    /\ \A t \in TaskIds : tasks[t] = Idle
    /\ now <= MaxTicks
    /\ now' = now + 1
    /\ UNCHANGED <<controllerVars, convVars, storeVars, tasks, ret, calls>>

Next ==
    \/ CallInitialize
    \/ CallAwaken
    \/ CallStartConversation
    \/ CallAddMessage
    \/ CallEndConversation
    \/ CallSleep
    \/ CallGetAwakeningPrompt
    \/ Tick
    \/ \E t \in TaskIds : Resume(t)

Spec == Init /\ [][Next]_vars

---------------------------------------------------------------------------
\* The Memory model on its own: one Memory, built by processConversation
\* from any conversation or by the constructor from any integer importance,
\* then loaded back from its row and amended by updateImportance any number
\* of times.  No Memory reads another, so one stands for each.

MaxInput == 12
MaxDurationTicks == 3
LateStart == 8

ImportanceInputs == (0 - MaxInput)..MaxInput

TranscriptInputs == {<<>>} \cup {<<m>> : m \in Messages}

ConversationInputs ==
    {[startTime |-> s, endTime |-> e, participants |-> p, rawText |-> r, messages |-> r] :
        s \in {1, LateStart},
        e \in {NoTime} \cup 1..(MaxDurationTicks + 1),
        p \in ParticipantLists,
        r \in TranscriptInputs}

\* Memory.updateImportance
updateImportance(m, newImportance) ==
    [m EXCEPT !.importance = Min(Max(newImportance, MinImportance), MaxImportance)]

\* Memory.load: new Memory(...) of the row's columns
LoadedMemory(row) ==
    NewMemory(row.memoryId, row.conversationId, row.summary, row.importance,
              row.timestamp, row.tags)

InitMemory ==
    /\ isAwake = FALSE
    /\ awakeningContext = NullContext
    /\ persona = NoId
    /\ currentConversation = NoId
    /\ convObj \in {<<c>> : c \in ConversationInputs}
    /\ conversations = <<ConvRow(convObj[1])>>
    /\ memories = <<>>
    /\ personas = <<>>
    /\ updates = <<>>
    /\ tasks = [t \in TaskIds |-> Idle]
    /\ ret = [op |-> "none", kind |-> "none", value |-> Nothing, warning |-> ""]
    /\ calls = 0
    /\ now = 1

memoryFrame ==
    <<controllerVars, convVars, personas, updates, tasks, calls, now>>

\* MemoryProcessor.processConversation(conversation)
MemoryProcess ==
    /\ memories = <<>>
    /\ memories' = Append(memories, ProcessedMemory(Len(memories) + 1, 1, convObj[1], now))
    /\ ret' = Result("processConversation", "ok", [memory |-> Len(memories) + 1], "")
    /\ UNCHANGED memoryFrame

\* new Memory(null, null, '', importance)
MemoryConstruct ==
    /\ memories = <<>>
    /\ \E i \in ImportanceInputs :
          /\ memories' = Append(memories,
                NewMemory(Len(memories) + 1, NoId,
                          [kind |-> "text", lines |-> <<>>, truncated |-> FALSE], i, now, <<>>))
          /\ ret' = Result("new Memory", "ok",
                           [memory |-> Len(memories) + 1, importance |-> i], "")
    /\ UNCHANGED memoryFrame

\* memory.updateImportance(newImportance)
MemoryUpdateImportance ==
    /\ \E k \in 1..Len(memories), i \in ImportanceInputs :
          /\ memories' = [memories EXCEPT ![k] = updateImportance(@, i)]
          /\ ret' = Result("updateImportance", "ok", [memory |-> k, importance |-> i], "")
    /\ UNCHANGED memoryFrame

\* Memory.load(memoryId)
MemoryLoad ==
    /\ \E k \in 1..Len(memories) :
          /\ memories' = [memories EXCEPT ![k] = LoadedMemory(@)]
          /\ ret' = Result("load", "ok", [memory |-> k], "")
    /\ UNCHANGED memoryFrame

NextMemory ==
    \/ MemoryProcess
    \/ MemoryConstruct
    \/ MemoryUpdateImportance
    \/ MemoryLoad

SpecMemory == InitMemory /\ [][NextMemory]_vars

---------------------------------------------------------------------------
\* Memory.searchByTags on its own, over a memories table filled by save().
\* The tags column holds JSON.stringify(tags); the query of one tag is
\* `tags LIKE '%tag%'`, a substring test on that text.

MaxStored == 2
MaxStamp == 2
MaxLimit == 2

\* the characters of the tags of this model
Spell(tag) ==
    CASE tag = "help" -> <<"h", "e", "l", "p">>
      [] tag = "helper" -> <<"h", "e", "l", "p", "e", "r">>
      [] tag = "error" -> <<"e", "r", "r", "o", "r">>
      [] tag = "2024-01-01" -> <<"2", "0", "2", "4", "-", "0", "1", "-", "0", "1">>
      [] OTHER -> <<"?">>

\* JSON.stringify(tags): ["a","b"]
RECURSIVE JoinTags(_)
JoinTags(tags) ==
    IF tags = <<>> THEN <<>>
    ELSE <<"\"">> \o Spell(Head(tags)) \o <<"\"">>
         \o (IF Tail(tags) = <<>> THEN <<>> ELSE <<",">> \o JoinTags(Tail(tags)))

Stringify(tags) == <<"[">> \o JoinTags(tags) \o <<"]">>

\* text LIKE '%pattern%' for a pattern without wildcards
Like(text, pattern) ==
    \E i \in 0..(Len(text) - Len(pattern)) : SubSeq(text, i + 1, i + Len(pattern)) = pattern

\* SELECT * FROM memories WHERE tags LIKE '%tag%', in insertion order
TagRows(tag) == SelectSeq(memories, LAMBDA m : Like(Stringify(m.tags), Spell(tag)))

\* the for loop: the rows of each tag, one tag after the other
RECURSIVE tagMatches(_)
tagMatches(tags) ==
    IF tags = <<>> THEN <<>> ELSE TagRows(Head(tags)) \o tagMatches(Tail(tags))

\* a variant that keeps every row, which C12 tells from the code's
uniqueMemories_KeepsAll(rows) == rows

\* uniqueIds / uniqueMemories: the first row of each memory_id, in order
RECURSIVE uniqueMemories(_)
uniqueMemories(rows) ==
    IF rows = <<>> THEN <<>>
    ELSE LET r == uniqueMemories(SubSeq(rows, 1, Len(rows) - 1))
             x == rows[Len(rows)]
         IN  IF \E i \in 1..Len(r) : r[i].memoryId = x.memoryId THEN r ELSE Append(r, x)

\* the comparator of the sort: a goes before b
Before(a, b) ==
    \/ a.importance > b.importance
    \/ a.importance = b.importance /\ a.timestamp > b.timestamp

\* Array.prototype.sort with that comparator: stable
RECURSIVE SortMemories(_)
SortMemories(rows) ==
    IF rows = <<>> THEN <<>>
    ELSE LET first == CHOOSE i \in 1..Len(rows) :
                         /\ \A j \in 1..Len(rows) : ~Before(rows[j], rows[i])
                         /\ \A j \in 1..(i - 1) : Before(rows[i], rows[j])
         IN  <<rows[first]>>
             \o SortMemories(SubSeq(rows, 1, first - 1) \o SubSeq(rows, first + 1, Len(rows)))

\* Memory.searchByTags(tags, limit)
searchByTags(tags, limit) ==
    LET sorted == SortMemories(uniqueMemories(tagMatches(tags)))
    IN  [i \in 1..Min(limit, Len(sorted)) |-> LoadedMemory(sorted[i])]

StoredTagLists ==
    {<<"help", "2024-01-01">>, <<"error">>, <<"helper">>, <<"help", "error">>}

QueryTagLists == {<<"help">>, <<"error">>, <<"help", "error">>}

StoredImportances == {ImportanceBase, HighImportance}

InitSearch ==
    /\ isAwake = FALSE
    /\ awakeningContext = NullContext
    /\ persona = NoId
    /\ currentConversation = NoId
    /\ convObj = <<>>
    /\ conversations = <<>>
    /\ memories = <<>>
    /\ personas = <<>>
    /\ updates = <<>>
    /\ tasks = [t \in TaskIds |-> Idle]
    /\ ret = [op |-> "none", kind |-> "none", value |-> Nothing, warning |-> ""]
    /\ calls = 0
    /\ now = 1

searchFrame ==
    <<controllerVars, convVars, personas, updates, tasks, calls>>

\* new Memory(null, null, '', importance, new Date(), tags).save()
SearchSave ==
    /\ Len(memories) < MaxStored
    /\ \E tags \in StoredTagLists, i \in StoredImportances :
          memories' = Append(memories,
              NewMemory(Len(memories) + 1, NoId,
                        [kind |-> "text", lines |-> <<>>, truncated |-> FALSE], i, now, tags))
    /\ ret' = Result("save", "ok", [memory |-> Len(memories) + 1], "")
    /\ UNCHANGED <<searchFrame, now>>

\* time passes between two saves
SearchTick ==
    /\ now < MaxStamp
    /\ now' = now + 1
    /\ UNCHANGED <<searchFrame, memories, ret>>

\* Memory.searchByTags(tags, limit)
SearchByTags ==
    /\ \E tags \in QueryTagLists, limit \in 1..MaxLimit :
          ret' = Result("searchByTags", "ok",
                        [tags |-> tags, limit |-> limit, found |-> searchByTags(tags, limit)], "")
    /\ UNCHANGED <<searchFrame, memories, now>>

NextSearch ==
    \/ SearchSave
    \/ SearchTick
    \/ SearchByTags

SpecSearch == InitSearch /\ [][NextSearch]_vars

---------------------------------------------------------------------------
\* Cycles of awaken() and sleep(), with initialize() in between, on a
\* controller that has been through one cycle.  CycleInit is the state after
\* initialize(); startConversation(['user', 'claude', 'help']);
\* addMessage('user', <long text>); endConversation() one tick later;
\* awaken(); sleep(): the first conversation made a Memory of importance 8,
\* so every sleep() evolves the persona.

CycleFirstConversation ==
    ConvEnd(ConvAddMessage(NewConversation(<<"user", "claude", "help">>, 1),
                           "user", LongText, 1), 2)

CycleSecondConversation == ConvEnd(NewConversation(DefaultParticipants, 2), 2)

CycleMemories ==
    <<ProcessedMemory(1, 1, CycleFirstConversation, 2),
      ProcessedMemory(2, 2, CycleSecondConversation, 2)>>

CycleChanges == identifyPersonaChanges(DefaultPersona(1, 1), Reverse(CycleMemories))

CyclePersona == Evolved(DefaultPersona(1, 1), CycleChanges, 2)

CycleInit ==
    /\ isAwake = FALSE
    /\ awakeningContext = NullContext
    /\ persona = 1
    /\ currentConversation = NoId
    /\ convObj = <<CycleFirstConversation, CycleSecondConversation>>
    /\ conversations = <<ConvRow(CycleFirstConversation), ConvRow(CycleSecondConversation)>>
    /\ memories = CycleMemories
    /\ personas = <<CyclePersona>>
    /\ updates = <<NewUpdate(1, CyclePersona, CycleChanges, Snapshot(DefaultPersona(1, 1)), 2)>>
    /\ tasks = [t \in TaskIds |-> Idle]
    /\ ret = [op |-> "sleep", kind |-> "ok", value |-> [id |-> 1], warning |-> ""]
    /\ calls = 0
    /\ now = 2

\* the continuations of initialize, awaken and sleep with a persona stored
CycleResume(t) ==
    \/ InitializeLoaded(t)
    \/ AwakenLoaded(t)
    \/ AwakenRecent(t)
    \/ AwakenImportant(t)
    \/ AwakenAssembled(t)
    \/ StartSaved(t)
    \/ EndSaved(t)
    \/ EndMemorySaved(t)
    \/ SleepRecent(t)
    \/ EvolvePersonaSaved(t)
    \/ SleepEvolved(t)

CycleNext ==
    \/ CallInitialize
    \/ CallAwaken
    \/ CallSleep
    \/ \E t \in TaskIds : CycleResume(t)

SpecCycle == CycleInit /\ [][CycleNext]_vars


---------------------------------------------------------------------------
\* The controller as the MCP server builds it: the constructor of
\* LTMClineServer calls this.ltm.initialize() without awaiting it, so the
\* first call of the caller finds initialize() in flight at its first await
\* (Persona.loadMostRecent, issued on the empty store).

ServerInit ==
    /\ isAwake = FALSE
    /\ awakeningContext = NullContext
    /\ persona = NoId
    /\ currentConversation = NoId
    /\ convObj = <<>>
    /\ conversations = <<>>
    /\ memories = <<>>
    /\ personas = <<>>
    /\ updates = <<>>
    /\ tasks = [t \in TaskIds |->
                  IF t = 1 THEN [op |-> "initialize", pc |-> "loadMostRecent", row |-> NoId]
                  ELSE Idle]
    /\ ret = [op |-> "none", kind |-> "none", value |-> Nothing, warning |-> ""]
    /\ calls = 0
    /\ now = 1

\* the continuations of initialize, awaken and sleep
ServerResume(t) ==
    \/ InitializeLoaded(t)
    \/ InitializeCreated(t)
    \/ AwakenLoaded(t)
    \/ AwakenCreated(t)
    \/ AwakenRecent(t)
    \/ AwakenImportant(t)
    \/ AwakenAssembled(t)
    \/ StartSaved(t)
    \/ EndSaved(t)
    \/ EndMemorySaved(t)
    \/ SleepRecent(t)
    \/ EvolvePersonaSaved(t)
    \/ SleepEvolved(t)

ServerNext ==
    \/ CallAwaken
    \/ CallSleep
    \/ \E t \in TaskIds : ServerResume(t)

SpecServer == ServerInit /\ [][ServerNext]_vars

---------------------------------------------------------------------------
\* PersonaEvolver.evolveDreamstate on its own: the default persona is in the
\* store and the function is called, and awaited, with the persona (or null)
\* and any list of up to MaxGiven Memories of the pool below.

MaxEvolutions == 1
MaxGiven == 2

\* Tags as generateTags makes them (participants, date, keywords met) of
\* conversations with the participants user and claude, or user alone, in
\* which help or error was said, and of one with the participants user and 7.
EvolveTagLists ==
    {<<"user", "claude", "2024-01-01", "help">>,
     <<"user", "2024-01-01", "help">>,
     <<"user", "2024-01-01", "error">>,
     <<"user", "7", "2024-01-01">>}

EvolveImportances == {ImportanceBase, HighImportance}

\* the pool: one Memory for each importance and tag list, its summary told
\* apart by its importance
EvolvePool ==
    {NewMemory(NoId, NoId,
               [kind |-> "meta", lines |-> <<>>, truncated |-> FALSE,
                participants |-> <<tags[1]>>, duration |-> [minutes |-> i]],
               i, 1, tags) : i \in EvolveImportances, tags \in EvolveTagLists}

\* the lists of n different Memories of the pool
RECURSIVE ListsOf(_)
ListsOf(n) ==
    IF n = 0 THEN {<<>>}
    ELSE {Append(l, m) : l \in ListsOf(n - 1), m \in EvolvePool} \ {<<>>}

EvolveInputs ==
    UNION {{l \in ListsOf(n) : \A i, j \in 1..Len(l) : l[i] = l[j] => i = j} : n \in 0..MaxGiven}

EvolveInit ==
    /\ isAwake = FALSE
    /\ awakeningContext = NullContext
    /\ persona = 1
    /\ currentConversation = NoId
    /\ convObj = <<>>
    /\ conversations = <<>>
    /\ memories = <<>>
    /\ personas = <<DefaultPersona(1, 1)>>
    /\ updates = <<>>
    /\ tasks = [t \in TaskIds |-> Idle]
    /\ ret = [op |-> "none", kind |-> "none", value |-> Nothing, warning |-> ""]
    /\ calls = 0
    /\ now = 1

evolveFrame == <<isAwake, awakeningContext, persona, currentConversation, convVars, memories, now>>

\* evolveDreamstate(null, recentMemories) throws
\* an evolveDreamstate(null, memories) that stores an update before it
\* throws, which C37 tells from the code's
EvolveNull_WritesFirst(mems) ==
    /\ tasks[MainTask] = Idle
    /\ calls' = calls + 1
    /\ ret' = Result("evolveDreamstate", "error", [error |-> "Persona cannot be null"], "")
    /\ updates' = Append(updates,
          NewUpdate(Len(updates) + 1, personas[1], identifyPersonaChanges(personas[1], mems),
                    Snapshot(personas[1]), now))
    /\ UNCHANGED <<evolveFrame, personas, tasks>>

EvolveNull(mems) ==
    /\ tasks[MainTask] = Idle
    /\ calls' = calls + 1
    /\ ret' = Result("evolveDreamstate", "error", [error |-> "Persona cannot be null"], "")
    /\ UNCHANGED <<evolveFrame, personas, updates, tasks>>

\* evolveDreamstate(persona, recentMemories) up to its first await: the
\* snapshot, identifyPersonaChanges, the four updates and persona.save()
EvolveDreamstate(p, mems) ==
    /\ tasks[MainTask] = Idle
    /\ calls' = calls + 1
    /\ LET changes == identifyPersonaChanges(personas[p], mems)
       IN  /\ personas' = [personas EXCEPT ![p] = Evolved(@, changes, now)]
           /\ tasks' = [tasks EXCEPT ![MainTask] =
                 [op |-> "evolveDreamstate", pc |-> "evolve.persona", p |-> p,
                  changes |-> changes, previousState |-> Snapshot(personas[p]),
                  given |-> mems]]
    /\ ret' = Pending("evolveDreamstate", [given |-> mems], "")
    /\ UNCHANGED <<evolveFrame, updates>>

\* evolveDreamstate, the persona saved: the DreamstateUpdate is built from the
\* two snapshots, saved and returned
EvolveUpdateSaved ==
    /\ At(MainTask, "evolveDreamstate", "evolve.persona")
    /\ updates' = Append(updates,
          NewUpdate(Len(updates) + 1, personas[tasks[MainTask].p], tasks[MainTask].changes,
                    tasks[MainTask].previousState, now))
    /\ tasks' = [tasks EXCEPT ![MainTask] = Idle]
    /\ ret' = Result("evolveDreamstate", "ok",
                     [id |-> Len(updates) + 1, given |-> tasks[MainTask].given], "")
    /\ UNCHANGED <<evolveFrame, personas, calls>>

EvolveNext ==
    \/ \E mems \in EvolveInputs : calls < MaxEvolutions /\ EvolveNull(mems)
    \/ \E mems \in EvolveInputs : calls < MaxEvolutions /\ EvolveDreamstate(persona, mems)
    \/ EvolveUpdateSaved

SpecEvolve == EvolveInit /\ [][EvolveNext]_vars

---------------------------------------------------------------------------
\* The persona over many evolutions: evolveDreamstate is called, and awaited,
\* up to MaxNights times on the persona of the store, each time with one of
\* two lists: a Memory of high importance among whose first tags is error, or
\* a Memory of middling importance among whose first tags is help.

MaxNights == 15

ErrorMemory ==
    NewMemory(NoId, NoId,
              [kind |-> "text", lines |-> <<[role |-> "user", content |-> "error"]>>,
               truncated |-> FALSE],
              HighImportance, 1, <<"user", "2024-01-01", "error">>)

HelpMemory ==
    NewMemory(NoId, NoId,
              [kind |-> "text", lines |-> <<[role |-> "user", content |-> "help"]>>,
               truncated |-> FALSE],
              ImportanceBase, 1, <<"user", "2024-01-01", "help">>)

DriftInputs == {<<ErrorMemory>>, <<HelpMemory>>}

DriftNext ==
    \/ \E mems \in DriftInputs : calls < MaxNights /\ EvolveDreamstate(persona, mems)
    \/ EvolveUpdateSaved

SpecDrift == EvolveInit /\ [][DriftNext]_vars

---------------------------------------------------------------------------
\* What the claims speak of.

\* the stored conversations that are open
OpenRows == {c \in DOMAIN conversations : conversations[c].end_time = NoTime}

\* the step is a call of op by the caller
Called(op) == calls' = calls + 1 /\ ret'.op = op

\* the awaited call of op has just returned or thrown
Returned(op) == ret.op = op /\ ret.kind \in {"ok", "error"}

stores == <<conversations, memories, personas, updates>>

\* C1: at most one stored conversation has endTime = null.
C1_AtMostOneOpenConversation == Cardinality(OpenRows) <= 1

\* C2: once a sleep() made while awake has completed, no conversation is
\* open: the controller holds none and no stored conversation has
\* endTime = null.
C2_SleepLeavesNoOpenConversation ==
    (Returned("sleep") /\ ret.kind = "ok" /\ ret.value # NullContext) =>
        /\ currentConversation = NoId
        /\ OpenRows = {}

\* C3: a sleep() made while awake ends with the controller asleep, the
\* context dropped and a stored DreamstateUpdate returned.
C3_SleepEndsAsleep ==
    (Returned("sleep") /\ ret.value # NullContext) =>
        /\ ret.kind = "ok"
        /\ ~isAwake
        /\ awakeningContext = NullContext
        /\ \E i \in 1..Len(updates) : updates[i].updateId = ret.value.id

\* C4: awaken() while awake returns the context held and changes neither the
\* controller nor the conversations nor any store, and starts nothing.
C4_AwakenWhileAwakeChangesNothing ==
    [][(Called("awaken") /\ isAwake) =>
          /\ ret'.kind = "ok"
          /\ ret'.value = awakeningContext
          /\ UNCHANGED <<controllerVars, convVars, stores, tasks>>]_vars

C4_Witness ==
    /\ Returned("awaken")
    /\ ret.warning = "System is already awake"
    /\ isAwake
    /\ ret.value = awakeningContext

\* C5: addMessage fails whenever the controller is not awake or holds no
\* conversation, and then changes no conversation.
C5_AddMessageNeedsAwakeAndConversation ==
    [][(Called("addMessage") /\ (~isAwake \/ currentConversation = NoId)) =>
          /\ ret'.kind = "error"
          /\ UNCHANGED convVars]_vars

\* C6: endConversation() without a conversation returns null, does not throw,
\* creates no Memory and changes neither the controller nor any store.
C6_EndConversationNoneChangesNothing ==
    [][(Called("endConversation") /\ currentConversation = NoId) =>
          /\ ret'.kind = "ok"
          /\ ret'.value = NullContext
          /\ UNCHANGED <<controllerVars, convVars, stores, tasks>>]_vars

C6_Witness ==
    /\ Returned("endConversation")
    /\ ret.value = NullContext
    /\ ret.warning = "No active conversation to end"
    /\ isAwake

\* C7: sleep() while asleep returns null and changes nothing: no update, no
\* Memory, the persona as it was, the controller asleep.
C7_SleepWhileAsleepChangesNothing ==
    [][(Called("sleep") /\ ~isAwake) =>
          /\ ret'.kind = "ok"
          /\ ret'.value = NullContext
          /\ ~isAwake'
          /\ UNCHANGED <<controllerVars, convVars, stores, tasks>>]_vars

C7_Witness ==
    /\ Returned("sleep")
    /\ ret.value = NullContext
    /\ ret.warning = "System is already asleep"
    /\ ~isAwake
    /\ personas # <<>>

\* C8: the controller is awake exactly when it holds a context, and
\* getAwakeningPrompt() succeeds exactly when it is awake.
C8_PromptExactlyWhenAwake ==
    /\ isAwake <=> awakeningContext # NullContext
    /\ Returned("getAwakeningPrompt") => (ret.kind = "ok" <=> isAwake)

C8_Witness ==
    /\ Returned("getAwakeningPrompt")
    /\ ret.kind = "ok"
    /\ isAwake

\* C9: addMessage with a missing role or content fails and appends nothing.
C9_MissingArgumentRejected ==
    /\ (ret.op = "addMessage" /\ ret.kind \in {"pending", "ok"}) =>
          (ret.value.role # "" /\ ret.value.content # "")
    /\ \A c \in DOMAIN convObj : \A i \in 1..Len(convObj[c].rawText) :
          convObj[c].rawText[i].role # "" /\ convObj[c].rawText[i].content # ""

\* C10: every Memory, however it was created, loaded or amended, has an
\* importance from 1 to 10.
C10_ImportanceInRange ==
    \A i \in 1..Len(memories) : 1 <= memories[i].importance /\ memories[i].importance <= 10

C10_Witness ==
    /\ Len(memories) = 1
    /\ memories[1].conversationId = 1
    /\ ret.op = "updateImportance"
    /\ ret.value.importance > 10
    /\ memories[ret.value.memory].importance = 10

\* the stored memories a tag search matches: those whose tags column holds
\* one of the queried tags as a substring
Matching(tags) ==
    {i \in 1..Len(memories) :
        \E q \in 1..Len(tags) : Like(Stringify(memories[i].tags), Spell(tags[q]))}

\* C11: every memory a tag search returns has one of the queried tags among
\* its tags, as an element.
C11_FoundHoldQueriedTag ==
    ret.op = "searchByTags" =>
        \A i \in 1..Len(ret.value.found) :
            \E q \in 1..Len(ret.value.tags) : InSeq(ret.value.tags[q], ret.value.found[i].tags)

\* C12: a tag search returns no memory twice, in the order of importance
\* descending then timestamp descending, and what it returns are the first
\* `limit` of all the matches in that order.
C12_FoundUniqueSortedFirst ==
    ret.op = "searchByTags" =>
        LET found == ret.value.found
            ids == {found[i].memoryId : i \in 1..Len(found)}
        IN  /\ Cardinality(ids) = Len(found)
            /\ \A i \in 1..Len(found) : \A j \in (i + 1)..Len(found) : ~Before(found[j], found[i])
            /\ ids \subseteq Matching(ret.value.tags)
            /\ \A i \in 1..Len(found) : found[i] = memories[found[i].memoryId]
            /\ Len(found) = Min(ret.value.limit, Cardinality(Matching(ret.value.tags)))
            /\ \A m \in Matching(ret.value.tags) \ ids :
                  \A i \in 1..Len(found) : ~Before(memories[m], found[i])

C12_Witness ==
    /\ ret.op = "searchByTags"
    /\ ret.value.tags = <<"help", "error">>
    /\ Len(memories) = 2
    /\ memories[1].tags = <<"help", "error">>
    /\ memories[1].importance < memories[2].importance
    /\ Cardinality(Matching(ret.value.tags)) = 2
    /\ ret.value.limit = 2
    /\ ret.value.found = <<memories[2], memories[1]>>

\* C13: every Memory references a conversation that was closed, and stored
\* as closed, before the Memory was made: no Memory references a
\* conversation whose stored endTime is null.
C13_MemoryOfClosedConversation ==
    \A i \in 1..Len(memories) :
        /\ memories[i].conversationId \in DOMAIN conversations
        /\ conversations[memories[i].conversationId].end_time # NoTime

\* the update of the same persona made just before update j, 0 if none
PreviousUpdate(j) ==
    LET earlier == {i \in 1..(j - 1) : updates[i].personaId = updates[j].personaId}
    IN  IF earlier = {} THEN 0 ELSE CHOOSE i \in earlier : \A k \in earlier : k <= i

\* C14: a persona's DreamstateUpdates form a chain: the previousState of each
\* is the newState of the one made just before it.
C14_UpdatesChain ==
    \A j \in 1..Len(updates) :
        PreviousUpdate(j) # 0 => updates[j].previousState = updates[PreviousUpdate(j)].newState

C14_Witness ==
    /\ Len(updates) = 2
    /\ updates[2].personaId = updates[1].personaId
    /\ updates[2].previousState # updates[2].newState
    /\ updates[1].previousState # updates[1].newState
    /\ Returned("sleep")

\* C15: when endConversation() on an open conversation completes, the
\* controller holds no conversation and the Memory returned is that of a
\* conversation stored with an endTime.
C15_EndConversationCloses ==
    [][(/\ ret.op = "endConversation" /\ ret.kind = "pending"
        /\ ret'.op = "endConversation" /\ ret'.kind = "ok") =>
          /\ currentConversation' = NoId
          /\ ret'.value.id \in 1..Len(memories')
          /\ conversations'[memories'[ret'.value.id].conversationId].end_time # NoTime]_vars

\* C16: every storage step a call starts has finished when the call returns:
\* while the caller awaits no call, no call is in flight.
C16_NothingInFlightBetweenCalls ==
    tasks[MainTask] = Idle => \A t \in TaskIds : tasks[t] = Idle

\* C17: whenever the controller can accept a call, the conversation it holds,
\* if any, has endTime = null, so no message is appended to a closed
\* conversation.
C17_HeldConversationIsOpen ==
    (tasks[MainTask] = Idle /\ currentConversation # NoId) =>
        convObj[currentConversation].endTime = NoTime

\* C18: no conversation is turned into more than one Memory.
C18_OneMemoryPerConversation ==
    \A i, j \in 1..Len(memories) :
        memories[i].conversationId = memories[j].conversationId => i = j

\* C19: the persona sleep() evolves is the persona of the context the
\* preceding awaken() returned.
C19_SleepEvolvesContextPersona ==
    \A t \in TaskIds :
        (tasks[t].op = "sleep" /\ tasks[t].pc = "evolve.persona") =>
            tasks[t].p = awakeningContext.persona.id

\* C20: whenever sleep() reaches the evolver the memories it fetched are not
\* empty, and no DreamstateUpdate is the one made for want of memories.
C20_SleepHasMemories ==
    /\ \A t \in TaskIds :
          (tasks[t].op = "sleep" /\ tasks[t].pc = "sleep.getRecent") => tasks[t].recent # <<>>
    /\ \A i \in 1..Len(updates) :
          updates[i].description # "No changes made due to lack of new experiences"

C20_Witness ==
    /\ Returned("sleep")
    /\ ret.kind = "ok"
    /\ ret.value # NullContext
    /\ Len(updates) = 1
    /\ updates[1].description = "Persona evolved based on recent experiences"
    /\ Len(memories) = 1
    /\ Len(convObj[1].rawText) = 0

\* the step at which the awaited sleep() throws out of evolveDreamstate
SleepFailsInEvolver ==
    /\ tasks[MainTask].op = "sleep"
    /\ tasks[MainTask].pc = "sleep.getRecent"
    /\ ret'.op = "sleep"
    /\ ret'.kind = "error"

\* C21: when the evolver step of sleep() throws, the controller is still
\* awake with the context it had, it holds no conversation, no stored
\* conversation is open, every closed one has its Memory and no store has
\* changed.
C21_FailedSleepRollsNothingBack ==
    [][SleepFailsInEvolver =>
          /\ isAwake'
          /\ awakeningContext' = awakeningContext
          /\ awakeningContext' # NullContext
          /\ currentConversation' = NoId
          /\ OpenRows' = {}
          /\ stores' = stores
          /\ memories' # <<>>]_vars

ReturnedUpdate == updates[ret.value.id]

\* evolveDreamstate has just returned, having been given no Memory
EvolvedNothing ==
    /\ Returned("evolveDreamstate")
    /\ ret.kind = "ok"
    /\ ret.value.given = <<>>

\* C23 as stated: an evolution over no Memory leaves the persona as it was
\* and stores one DreamstateUpdate with equal states, described as 'no
\* changes made' and justified as 'no recent memories to process'.
C23_NoMemoriesUpdateAsStated ==
    EvolvedNothing =>
        /\ ReturnedUpdate.previousState = ReturnedUpdate.newState
        /\ ReturnedUpdate.description = "no changes made"
        /\ ReturnedUpdate.justification.text = "no recent memories to process"

\* C23 as amended: an evolution over no Memory leaves the traits, values,
\* preferences and biography of the persona as they were and stores exactly
\* one DreamstateUpdate, whose states are equal and are the persona's, with
\* the description 'No changes made due to lack of new experiences' and the
\* justification 'No recent memories to process'.
C23_NoMemoriesNoChange ==
    [][/\ (tasks'[MainTask].op = "evolveDreamstate" /\ tasks'[MainTask].given = <<>>) =>
             /\ Snapshot(personas'[persona]) = Snapshot(personas[persona])
             /\ Len(updates') <= Len(updates) + 1
       /\ EvolvedNothing' =>
             /\ Len(updates') = Len(updates) + 1
             /\ ReturnedUpdate'.previousState = ReturnedUpdate'.newState
             /\ ReturnedUpdate'.newState = Snapshot(personas[persona])
             /\ personas' = personas
             /\ ReturnedUpdate'.description = "No changes made due to lack of new experiences"
             /\ ReturnedUpdate'.justification.text = "No recent memories to process"]_vars

C23_Witness ==
    /\ EvolvedNothing
    /\ Len(updates) = 1
    /\ personas[persona].lastUpdated = now

\* the step is evolveDreamstate up to the save of the persona
Evolving == tasks[MainTask] = Idle /\ tasks'[MainTask].op = "evolveDreamstate"

C25_HelpfulnessRisesWithHelp ==
    [][Evolving =>
          LET top == sortedTags(tasks'[MainTask].given)
              old == personas[persona]
              new == personas'[persona]
          IN  (InSeq("solution", top) \/ InSeq("help", top)) =>
                  /\ new.values.helpfulness =
                        (IF old.values.helpfulness + 1 > 100 THEN 100
                         ELSE old.values.helpfulness + 1)
                  /\ new.traits.agreeableness =
                        (IF old.traits.agreeableness >= 95 THEN old.traits.agreeableness
                         ELSE IF old.traits.agreeableness + 2 > 95 THEN 95
                         ELSE old.traits.agreeableness + 2)]_vars

\* C26: every trait and every value of every stored persona lies within 0
\* and 1, neuroticism is at most 0.8 and agreeableness at most 0.95.
C26_TraitsWithinLimits ==
    \A i \in DOMAIN personas :
        /\ \A k \in DOMAIN personas[i].traits : personas[i].traits[k] \in 0..100
        /\ \A k \in DOMAIN personas[i].values : personas[i].values[k] \in 0..100
        /\ personas[i].traits.neuroticism <= 80
        /\ personas[i].traits.agreeableness <= 95

\* neuroticism had come to 0.8 and one more evolution over the error Memory
\* has left it there
C26_Witness ==
    /\ Returned("evolveDreamstate")
    /\ ret.value.given = <<ErrorMemory>>
    /\ updates[Len(updates)].previousState.traits.neuroticism = 80
    /\ personas[persona].traits.neuroticism = 80

\* the set of the elements of a sequence
Range(s) == {s[i] : i \in 1..Len(s)}

\* C27: the tags an evolution goes by are the 3 of the highest counts among
\* the tags of the Memories given, of tags of equal counts those first met
\* in the Memories and their tags.
C27_TopTagsFirstSeen ==
    [][Evolving =>
          LET all == AllTags(tasks'[MainTask].given)
          IN  Range(sortedTags(tasks'[MainTask].given))
                  = Range(FirstN(SortByCount(Unique(all), all), 3))]_vars

\* every conversation so far has the participants awaken() gives it, and all
\* started on one date
OnlyAwakenedConversations ==
    /\ \A c \in DOMAIN convObj : convObj[c].participants = <<"user", "claude">>
    /\ \A c, d \in DOMAIN convObj : DateTag(convObj[c].startTime) = DateTag(convObj[d].startTime)

\* C28: while every conversation has the participants user and claude and
\* all started on one date, the 3 most frequent tags of the Memories a
\* sleep() fetched are user, claude and that date, and neuroticism,
\* agreeableness and helpfulness are what they were at first.
C28_AwakenedRunsNeverShiftTraits ==
    OnlyAwakenedConversations =>
        /\ \A t \in TaskIds :
              (tasks[t].op = "sleep" /\ tasks[t].pc = "sleep.getRecent") =>
                  Range(sortedTags(tasks[t].recent))
                      = {"user", "claude", DateTag(convObj[1].startTime)}
        /\ \A i \in DOMAIN personas :
              /\ personas[i].traits.neuroticism = 40
              /\ personas[i].traits.agreeableness = 75
              /\ personas[i].values.helpfulness = 85

\* a sleep() has evolved the persona over a Memory that has the tag help
C28_Witness ==
    /\ OnlyAwakenedConversations
    /\ Returned("sleep")
    /\ ret.kind = "ok"
    /\ updates # <<>>
    /\ \E i \in 1..Len(memories) : InSeq("help", memories[i].tags)

\* C29: the Memories a sleep() evolves over are the 10 newest stored, whether
\* or not an earlier sleep() evolved over them; if one of them has importance
\* 8 or more, the summary of the first such is appended to the biography, and
\* conscientiousness rises by 0.05 while it is below 0.9.
C29_SleepEvolvesOverStoredMemoriesAgain ==
    [][\A t \in TaskIds :
          (At(t, "sleep", "sleep.getRecent") /\ tasks'[t].pc = "evolve.persona") =>
              LET recent == tasks[t].recent
                  highs == {i \in 1..Len(recent) : recent[i].importance >= 8}
                  old == personas[persona]
                  new == personas'[persona]
              IN  /\ \A i \in 1..Len(memories) :
                        i > Len(memories) - 10 => \E j \in 1..Len(recent) : recent[j] = memories[i]
                  /\ highs # {} =>
                        LET first == CHOOSE i \in highs : \A j \in highs : i <= j
                        IN  /\ new.biography = Append(old.biography, recent[first].summary)
                            /\ new.traits.conscientiousness =
                                  IF old.traits.conscientiousness < 90
                                  THEN old.traits.conscientiousness + 5
                                  ELSE old.traits.conscientiousness]_vars

\* three sleeps have appended the summary of the one Memory of high
\* importance three times, and the first two have raised conscientiousness
\* to 0.9
C29_Witness ==
    /\ Returned("sleep")
    /\ ret.kind = "ok"
    /\ Len(updates) = 3
    /\ Cardinality({i \in 1..Len(memories) : memories[i].importance >= 8}) = 1
    /\ LET b == personas[persona].biography
       IN  /\ Len(b) = 4
           /\ b[2] = memories[1].summary
           /\ b[3] = b[2]
           /\ b[4] = b[2]
    /\ personas[persona].traits.conscientiousness = 90
    /\ updates[3].previousState.traits.conscientiousness = 90

\* C30: no step lowers a trait or a value of a stored persona or removes a
\* trait, a value or a preference from it, and the biography it had is the
\* beginning of the biography it has after the step.
C30_PersonaOnlyGrows ==
    [][\A i \in DOMAIN personas :
          LET old == personas[i]
              new == personas'[i]
          IN  /\ i \in DOMAIN personas'
              /\ DOMAIN old.traits \subseteq DOMAIN new.traits
              /\ DOMAIN old.values \subseteq DOMAIN new.values
              /\ DOMAIN old.preferences \subseteq DOMAIN new.preferences
              /\ \A k \in DOMAIN old.traits : old.traits[k] <= new.traits[k]
              /\ \A k \in DOMAIN old.values : old.values[k] <= new.values[k]
              /\ Len(old.biography) <= Len(new.biography)
              /\ SubSeq(new.biography, 1, Len(old.biography)) = old.biography]_vars

\* an evolution has raised neuroticism and conscientiousness and lengthened
\* the biography, and another has raised agreeableness and helpfulness
C30_Witness ==
    /\ Returned("evolveDreamstate")
    /\ personas[persona].traits.neuroticism > 40
    /\ personas[persona].traits.conscientiousness > 80
    /\ personas[persona].traits.agreeableness > 75
    /\ personas[persona].values.helpfulness > 85
    /\ Len(personas[persona].biography) > 1

\* the updates whose diff has an entry for the trait, or for the value, k
RaisesOfTrait(k) == {i \in 1..Len(updates) : k \in DOMAIN getDiff(updates[i]).traits}
RaisesOfValue(k) == {i \in 1..Len(updates) : k \in DOMAIN getDiff(updates[i]).values}

\* C31: of the updates stored, at most 2 raise conscientiousness, 14
\* neuroticism, 10 agreeableness and 10 helpfulness, and none raises another
\* trait or value; an update made once a trait stands at its threshold has no
\* entry for it, and one made once all stand there has no entry for any
\* trait or value.
C31_PersonaReachesFixedPoint ==
    /\ Cardinality(RaisesOfTrait("conscientiousness")) <= 2
    /\ Cardinality(RaisesOfTrait("neuroticism")) <= 14
    /\ Cardinality(RaisesOfTrait("agreeableness")) <= 10
    /\ Cardinality(RaisesOfValue("helpfulness")) <= 10
    /\ \A i \in 1..Len(updates) :
          LET before == updates[i].previousState
              diff == getDiff(updates[i])
          IN  /\ DOMAIN diff.traits \subseteq {"conscientiousness", "neuroticism", "agreeableness"}
              /\ DOMAIN diff.values \subseteq {"helpfulness"}
              /\ before.traits.conscientiousness >= 90 => "conscientiousness" \notin DOMAIN diff.traits
              /\ before.traits.neuroticism >= 80 => "neuroticism" \notin DOMAIN diff.traits
              /\ before.traits.agreeableness >= 95 =>
                    /\ "agreeableness" \notin DOMAIN diff.traits
                    /\ "helpfulness" \notin DOMAIN diff.values

\* two evolutions have raised conscientiousness to 0.9 and the update of a
\* third over the same Memory has no entry for any trait or value but
\* neuroticism; ten have raised agreeableness to 0.95 and the update of an
\* eleventh has none at all
C31_Witness ==
    /\ Len(updates) = 14
    /\ Cardinality(RaisesOfTrait("conscientiousness")) = 2
    /\ Cardinality(RaisesOfTrait("agreeableness")) = 10
    /\ updates[3].previousState.traits.conscientiousness = 90
    /\ DOMAIN getDiff(updates[3]).traits = {"neuroticism"}
    /\ updates[14].previousState.traits.agreeableness = 95
    /\ DOMAIN getDiff(updates[14]).traits = {}
    /\ DOMAIN getDiff(updates[14]).values = {}

\* the value of key k in a map, a key the map lacks reading as undefined
ValueAt(map, k) == IF k \in DOMAIN map THEN map[k] ELSE Nothing

\* the diff d is the one the claim describes of the update u
DiffAsClaimed(d, u) ==
    /\ \A part \in {"traits", "values", "preferences"} :
          \A k \in DOMAIN u.previousState[part] \cup DOMAIN u.newState[part] :
              k \in DOMAIN d[part] <=>
                  ValueAt(u.previousState[part], k) # ValueAt(u.newState[part], k)
    /\ \A part \in {"traits", "values", "preferences"} :
          DOMAIN d[part] \subseteq DOMAIN u.previousState[part] \cup DOMAIN u.newState[part]
    /\ d.biography # NoChange <=> u.previousState.biography # u.newState.biography

\* C32: the getDiff of every stored update, and the changes the awakening
\* context shows of an update, hold an entry for a trait, value or preference
\* key exactly when its previous and new values differ, and a biography
\* entry exactly when the biography changed.
C32_DiffListsExactlyTheChanges ==
    /\ \A i \in 1..Len(updates) : DiffAsClaimed(getDiff(updates[i]), updates[i])
    /\ awakeningContext # NullContext =>
          \A j \in 1..Len(awakeningContext.recentUpdates) :
              \E i \in 1..Len(updates) :
                  /\ updates[i].timestamp = awakeningContext.recentUpdates[j].when
                  /\ DiffAsClaimed(awakeningContext.recentUpdates[j].changes, updates[i])

\* the context of the second awakening shows the update that raised
\* conscientiousness to 0.9 with that entry and a biography entry only, and
\* the update of the sleep after it has a biography entry and no trait
C32_Witness ==
    /\ awakeningContext # NullContext
    /\ Len(awakeningContext.recentUpdates) = 2
    /\ DOMAIN awakeningContext.recentUpdates[1].changes.traits = {"conscientiousness"}
    /\ DOMAIN awakeningContext.recentUpdates[1].changes.values = {}
    /\ awakeningContext.recentUpdates[1].changes.biography # NoChange
    /\ Len(updates) = 3
    /\ DOMAIN getDiff(updates[3]).traits = {}
    /\ getDiff(updates[3]).biography # NoChange

---------------------------------------------------------------------------
\* LTMSQL.searchMemories among the cycles of awaken() and sleep().  The
\* query is a word a tag search could look for.

defaultSearchLimit == 5

SearchQueries == {"help", "error"}

SearchTagLists == {<<>>, <<"help">>, <<"error">>, <<"2024-01-01", "help">>}

\* a search that also looks for the query among the tags, which C33 tells
\* from the code's
searchRelevantMemories_ByQuery(query, tags, limit) ==
    searchByTags(Append(tags, query), limit)

\* AwakeningService.searchRelevantMemories(query, tags, { limit })
searchRelevantMemories(query, tags, limit) ==
    IF Len(tags) > 0 THEN searchByTags(tags, limit) ELSE GetRecent(limit)

\* searchMemories(query, tags, options), awaited by the caller: the queries
\* of the search read the memories table and nothing is written
CallSearchMemories ==
    /\ CallerReady
    /\ calls' = calls + 1
    /\ \E query \in SearchQueries, tags \in SearchTagLists,
          limit \in (1..MaxLimit) \cup {defaultSearchLimit} :
          ret' = Result("searchMemories", "ok",
                        [query |-> query, tags |-> tags, limit |-> limit,
                         found |-> searchRelevantMemories(query, tags, limit)], "")
    /\ UNCHANGED <<controllerVars, convVars, storeVars, tasks, now>>

LookupNext ==
    \/ CallSearchMemories
    \/ CycleNext

SpecLookup == CycleInit /\ [][LookupNext]_vars

\* C33: a call of searchMemories succeeds asleep and awake, leaves the
\* controller's fields and every table as they were, and returns the tag
\* search of its tags when there are any and the most recent Memories when
\* there are none, whatever the query.
C33_SearchReadsOnly ==
    [][(calls' = calls + 1 /\ ret'.op = "searchMemories") =>
          /\ ret'.kind = "ok"
          /\ UNCHANGED <<controllerVars, convVars, storeVars>>
          /\ ret'.value.found =
                IF Len(ret'.value.tags) > 0
                THEN searchByTags(ret'.value.tags, ret'.value.limit)
                ELSE GetRecent(ret'.value.limit)]_vars

\* awake, a search for the query 'error' with the tag 'help' has found the
\* one Memory with that tag, which is not the most recent one
C33_Witness ==
    /\ isAwake
    /\ Returned("searchMemories")
    /\ ret.value.query = "error"
    /\ ret.value.tags = <<"help">>
    /\ Len(ret.value.found) = 1
    /\ ret.value.found # GetRecent(1)

\* the one-to-one choices of n of the rows 1..total
Choices(n, total) ==
    {f \in [1..n -> 1..total] : \A i, j \in 1..n : i # j => f[i] # f[j]}

\* list shows the limit most recent stored Memories, newest first
RecentAsClaimed(list, limit) ==
    /\ Len(list) = Min(limit, Len(memories))
    /\ \E f \in Choices(Len(list), Len(memories)) :
          /\ \A i \in 1..Len(list) : list[i] = formattedMemories(memories)[f[i]]
          /\ \A i, j \in 1..Len(list) : i < j => list[i].when >= list[j].when
          /\ \A k \in 1..Len(memories) :
                (\A i \in 1..Len(list) : f[i] # k) =>
                    \A i \in 1..Len(list) : memories[k].timestamp <= list[i].when

\* list shows at most limit stored Memories of importance threshold or
\* more, the most important first and the newer first among equals, and
\* none left out goes before one shown
ImportantAsClaimed(list, threshold, limit) ==
    /\ Len(list) =
          Min(limit, Cardinality({k \in 1..Len(memories) : memories[k].importance >= threshold}))
    /\ \E f \in Choices(Len(list), Len(memories)) :
          /\ \A i \in 1..Len(list) :
                /\ list[i] = formattedMemories(memories)[f[i]]
                /\ list[i].importance >= threshold
          /\ \A i, j \in 1..Len(list) :
                i < j => \/ list[i].importance > list[j].importance
                         \/ /\ list[i].importance = list[j].importance
                            /\ list[i].when >= list[j].when
          /\ \A k \in 1..Len(memories) :
                ((\A i \in 1..Len(list) : f[i] # k) /\ memories[k].importance >= threshold) =>
                    \A i \in 1..Len(list) :
                        \/ memories[k].importance < list[i].importance
                        \/ /\ memories[k].importance = list[i].importance
                           /\ memories[k].timestamp <= list[i].when

\* list shows the limit latest stored updates of persona p, latest first
UpdatesAsClaimed(list, p, limit) ==
    /\ Len(list) =
          Min(limit, Cardinality({k \in 1..Len(updates) : updates[k].personaId = p}))
    /\ \E f \in Choices(Len(list), Len(updates)) :
          /\ \A i \in 1..Len(list) :
                /\ list[i] = formattedUpdates(updates)[f[i]]
                /\ updates[f[i]].personaId = p
          /\ \A i, j \in 1..Len(list) : i < j => list[i].when >= list[j].when
          /\ \A k \in 1..Len(updates) :
                ((\A i \in 1..Len(list) : f[i] # k) /\ updates[k].personaId = p) =>
                    \A i \in 1..Len(list) : updates[k].timestamp <= list[i].when

\* awaken() has returned a context that shows the stores as they are
ContextAsStored ==
    LET context == ret.value
    IN  /\ personas # <<>>
        /\ context.persona.id \in MostRecentPersonas
        /\ context.persona =
              [id |-> context.persona.id] @@ Snapshot(personas[context.persona.id])
        /\ RecentAsClaimed(context.recentMemories, recentMemoriesLimit)
        /\ ImportantAsClaimed(context.importantMemories, importantMemoriesThreshold,
                              importantMemoriesLimit)
        /\ UpdatesAsClaimed(context.recentUpdates, context.persona.id, recentUpdatesLimit)

\* the step in which an awaken() called asleep returns
AwakenReturns ==
    /\ ~isAwake
    /\ ret.op = "awaken" /\ ret.kind = "pending"
    /\ ret'.op = "awaken" /\ ret'.kind = "ok"

\* one conversation more than before is stored, open, and the controller
\* holds it
OneNewOpenConversation ==
    /\ Len(convObj') = Len(convObj) + 1
    /\ currentConversation' = Len(convObj')
    /\ convObj'[currentConversation'].endTime = NoTime
    /\ \A c \in 1..Len(convObj) : convObj'[c].endTime # NoTime

\* C34: awaken() from Asleep returns a context that shows the persona, the 5
\* most recent Memories, at most 5 Memories of importance 8 or more and the
\* 3 latest updates of the persona as stored, and leaves the controller
\* awake with exactly one new open conversation.
C34_AwakenReturnsContextAndOpens ==
    [][AwakenReturns =>
          (isAwake' /\ ContextAsStored' /\ awakeningContext' = ret'.value
           /\ OneNewOpenConversation)]_vars

\* the step in which an addMessage call is accepted: it runs to the await
\* of save()
AddMessageAccepted == tasks[MainTask] = Idle /\ tasks'[MainTask].op = "addMessage"

\* the step in which an accepted addMessage call returns
AddMessageReturns == tasks[MainTask].op = "addMessage" /\ tasks'[MainTask] = Idle

\* C35: an accepted addMessage(role, content) puts one entry at the end of
\* the messages of the conversation held and 'role: content' at the end of
\* its rawText, all earlier entries and text being kept, and stores the
\* conversation as it then is; it changes no other conversation and no
\* Memory, update or persona, nor does its return.
C35_AddMessageAppendsOneLine ==
    [][/\ AddMessageAccepted =>
            LET c == currentConversation
                line == [role |-> ret'.value.role, content |-> ret'.value.content]
            IN  /\ c # NoId /\ currentConversation' = c
                /\ convObj'[c].messages = Append(convObj[c].messages, line)
                /\ convObj'[c].rawText = Append(convObj[c].rawText, line)
                /\ convObj'[c].startTime = convObj[c].startTime
                /\ convObj'[c].endTime = convObj[c].endTime
                /\ convObj'[c].participants = convObj[c].participants
                /\ conversations'[c] = ConvRow(convObj'[c])
                /\ DOMAIN convObj' = DOMAIN convObj
                /\ DOMAIN conversations' = DOMAIN conversations \cup {c}
                /\ \A d \in DOMAIN convObj \ {c} : convObj'[d] = convObj[d]
                /\ \A d \in DOMAIN conversations \ {c} : conversations'[d] = conversations[d]
                /\ UNCHANGED <<memories, updates, personas, persona>>
       /\ AddMessageReturns =>
            /\ ret'.kind = "ok"
            /\ UNCHANGED <<convObj, conversations, memories, updates, personas, persona>>]_vars

\* a second addMessage has returned: the conversation held has both
\* messages in the order given, in its rawText and in its stored row
C35_Witness ==
    /\ Returned("addMessage")
    /\ ret.kind = "ok"
    /\ currentConversation # NoId
    /\ Len(convObj[currentConversation].messages) = 2
    /\ convObj[currentConversation].rawText[1] # convObj[currentConversation].rawText[2]
    /\ conversations[currentConversation].raw_text = convObj[currentConversation].rawText

\* a step of an initialize() call: its start or one of its continuations
InitializeStep ==
    \E t \in TaskIds :
        /\ tasks'[t] # tasks[t]
        /\ tasks[t].op = "initialize" \/ tasks'[t].op = "initialize"

\* C36: a persona record is created only when none is stored, so a further
\* initialize(), or an awaken() after initialize() has completed, creates
\* none; and no step of initialize() changes isAwake, the context or the
\* conversation held.
C36_InitializeCreatesOnce ==
    [][/\ Len(personas') > Len(personas) => personas = <<>>
       /\ InitializeStep => UNCHANGED <<isAwake, awakeningContext, currentConversation>>]_vars

\* initialize(), awaken() and initialize() again have returned: one persona
\* is stored, and the controller is awake with its context and conversation
C36_Witness ==
    /\ Returned("initialize")
    /\ ret.kind = "ok"
    /\ calls = 3
    /\ Len(personas) = 1
    /\ persona = 1
    /\ isAwake
    /\ awakeningContext # NullContext
    /\ awakeningContext.persona.id = 1
    /\ currentConversation # NoId

---------------------------------------------------------------------------
\* The two services called with null, among the evolutions of SpecEvolve.

\* MemoryProcessor.processConversation(null) throws
ProcessNull ==
    /\ tasks[MainTask] = Idle
    /\ ret' = Result("processConversation", "error",
                     [error |-> "Conversation cannot be null"], "")
    /\ UNCHANGED <<evolveFrame, personas, updates, tasks, calls>>

NullNext ==
    \/ ProcessNull
    \/ EvolveNext

SpecNull == EvolveInit /\ [][NullNext]_vars

\* the step of a call that throws
CallThrows == ret'.kind = "error" /\ (ret' # ret \/ calls' # calls)

\* C37: processConversation(null) and evolveDreamstate(null, memories) throw
\* 'Conversation cannot be null' and 'Persona cannot be null', and the call
\* that throws stores no Memory, persona or update and leaves nothing in
\* flight.
C37_NullArgumentWritesNothing ==
    [][CallThrows =>
          /\ \/ ret'.op = "processConversation" /\ ret'.value.error = "Conversation cannot be null"
             \/ ret'.op = "evolveDreamstate" /\ ret'.value.error = "Persona cannot be null"
          /\ UNCHANGED <<memories, personas, updates, conversations>>
          /\ tasks' = tasks]_vars

\* processConversation(null) has thrown after an evolution stored its update
C37_Witness ==
    /\ ret.op = "processConversation"
    /\ ret.kind = "error"
    /\ Len(updates) = 1
    /\ memories = <<>>
    /\ Len(personas) = 1

---------------------------------------------------------------------------
\* MemoryProcessor.generateSummary on its own, character by character, for a
\* conversation without participants that has not ended: every text of up
\* to MaxChars letters and blanks, every maxLength up to MaxSummaryLength.

MaxChars == 6
MaxSummaryLength == 3

Characters == {"a", " "}

Texts == UNION {[1..n -> Characters] : n \in 0..MaxChars}

\* 'Conversation with ' + [].join(', '), the duration being null
MetadataSummary ==
    <<"C", "o", "n", "v", "e", "r", "s", "a", "t", "i", "o", "n", " ", "w", "i", "t", "h", " ">>

\* String.prototype.lastIndexOf(' '), counted from 0: -1 when there is none
lastIndexOf(text, ch) ==
    IF \E i \in 1..Len(text) : text[i] = ch
    THEN (CHOOSE i \in 1..Len(text) :
              text[i] = ch /\ \A j \in (i + 1)..Len(text) : text[j] # ch) - 1
    ELSE -1

\* String.prototype.substring(0, end): a negative end counts as 0
substring(text, end) == SubSeq(text, 1, Min(Len(text), IF end < 0 THEN 0 ELSE end))

\* a summary that keeps the first maxLength characters as they are, which
\* C38 tells from the code's
summaryOf_CutsAnywhere(fullText, maxLength) ==
    IF Len(fullText) > 0
    THEN LET textForSummary == substring(fullText, Min(maxLength, Len(fullText)))
         IN  IF Len(textForSummary) < Len(fullText)
             THEN [text |-> textForSummary, marker |-> TRUE]
             ELSE [text |-> textForSummary, marker |-> FALSE]
    ELSE [text |-> MetadataSummary, marker |-> FALSE]

\* generateSummary, the text of the summary and whether '...' follows it
summaryOf(fullText, maxLength) ==
    IF Len(fullText) > 0
    THEN LET textForSummary == substring(fullText, Min(maxLength, Len(fullText)))
         IN  IF Len(textForSummary) < Len(fullText)
             THEN [text |-> substring(textForSummary, lastIndexOf(textForSummary, " ")),
                   marker |-> TRUE]
             ELSE [text |-> textForSummary, marker |-> FALSE]
    ELSE [text |-> MetadataSummary, marker |-> FALSE]

SummaryInit ==
    /\ isAwake = FALSE
    /\ awakeningContext = NullContext
    /\ persona = NoId
    /\ currentConversation = NoId
    /\ convObj = <<>>
    /\ conversations = <<>>
    /\ memories = <<>>
    /\ personas = <<>>
    /\ updates = <<>>
    /\ tasks = [t \in TaskIds |-> Idle]
    /\ \E fullText \in Texts, maxLength \in 0..MaxSummaryLength :
          ret = Pending("generateSummary", [fullText |-> fullText, maxLength |-> maxLength], "")
    /\ calls = 0
    /\ now = 1

\* generateSummary(conversation, { maxLength })
GenerateSummary ==
    /\ ret.kind = "pending"
    /\ ret' = Result("generateSummary", "ok",
                     [fullText |-> ret.value.fullText, maxLength |-> ret.value.maxLength,
                      summary |-> summaryOf(ret.value.fullText, ret.value.maxLength)], "")
    /\ UNCHANGED <<controllerVars, convVars, storeVars, tasks, clockVars>>

SpecSummary == SummaryInit /\ [][GenerateSummary]_vars

\* p is a beginning of text that ends where a word ends: at the end of the
\* text, before a blank, or before the first character
PrefixAtWordEnd(p, text) ==
    /\ Len(p) <= Len(text)
    /\ p = SubSeq(text, 1, Len(p))
    /\ \/ Len(p) = Len(text)
       \/ text[Len(p) + 1] = " "
       \/ p = <<>>

\* the summary s is the one the claim describes of text and maxLength
SummaryAsClaimed(s, text, maxLength) ==
    /\ Len(text) <= maxLength => s.text = text /\ ~s.marker
    /\ Len(text) > maxLength =>
          /\ s.marker
          /\ Len(s.text) <= maxLength
          /\ \A i \in 1..maxLength :
                text[i] = " " => Len(s.text) < maxLength /\ text[Len(s.text) + 1] = " "
                                 /\ i <= Len(s.text) + 1
    /\ PrefixAtWordEnd(s.text, text)

\* C38 as stated: the summary of every transcript is the whole transcript
\* when it is no longer than maxLength, and otherwise its first maxLength
\* characters cut back to the last blank among them and the marker; without
\* the marker it is a beginning of the transcript that ends where a word ends.
C38_SummaryOfAnyText ==
    Returned("generateSummary") =>
        SummaryAsClaimed(ret.value.summary, ret.value.fullText, ret.value.maxLength)

\* C38, amended: the same of every transcript that is not empty.
C38_SummaryOfNonEmptyText ==
    (Returned("generateSummary") /\ Len(ret.value.fullText) > 0) =>
        SummaryAsClaimed(ret.value.summary, ret.value.fullText, ret.value.maxLength)

\* 'aa aaa' summarised with maxLength 3: the cut falls on the blank, and
\* the summary is 'aa' and the marker
C38_Witness ==
    /\ Returned("generateSummary")
    /\ ret.value.fullText = <<"a", "a", " ", "a", "a", "a">>
    /\ ret.value.maxLength = 3
    /\ ret.value.summary = [text |-> <<"a", "a">>, marker |-> TRUE]

---------------------------------------------------------------------------
\* Memory.addTags on the Memory processConversation made of a conversation.

\* the arguments of addTags: an array of tags, or one tag that is no array
AddTagInputs ==
    {[isArray |-> TRUE, tags |-> <<"help">>],
     [isArray |-> TRUE, tags |-> <<"fix", "fix">>],
     [isArray |-> TRUE, tags |-> <<"user", "fix">>],
     [isArray |-> FALSE, tags |-> <<"error">>]}

\* an addTags that pushes every tag given, which C39 tells from the code's
addTags_PushesAll(m, newTags) == [m EXCEPT !.tags = @ \o newTags.tags]

\* newTags.forEach: a tag is pushed unless this.tags includes it by then
RECURSIVE PushNew(_, _)
PushNew(tags, newTags) ==
    IF newTags = <<>> THEN tags
    ELSE PushNew(IF InSeq(Head(newTags), tags) THEN tags ELSE Append(tags, Head(newTags)),
                 Tail(newTags))

\* Memory.addTags(newTags); what is no array has been put into one
addTags(m, newTags) == [m EXCEPT !.tags = PushNew(@, newTags.tags)]

\* memory.addTags(newTags) on a stored Memory's object
MemoryAddTags ==
    /\ \E k \in 1..Len(memories), newTags \in AddTagInputs :
          /\ memories' = [memories EXCEPT ![k] = addTags(@, newTags)]
          /\ ret' = Result("addTags", "ok", [memory |-> k, newTags |-> newTags], "")
    /\ UNCHANGED memoryFrame

TagsNext ==
    \/ MemoryProcess
    \/ MemoryAddTags
    \/ MemoryLoad

SpecTags == InitMemory /\ [][TagsNext]_vars

\* C39: no Memory holds the same tag twice, as processConversation made it
\* and after every addTags.
C39_NoTagTwice ==
    \A k \in 1..Len(memories) :
        \A i, j \in 1..Len(memories[k].tags) :
            memories[k].tags[i] = memories[k].tags[j] => i = j

\* the Memory of a conversation with the participant 'help' and the message
\* 'help', after addTags(['fix', 'fix']) and addTags(['help']): 'help' and
\* 'fix' stand once each
C39_Witness ==
    /\ Returned("addTags")
    /\ ret.value.newTags.tags = <<"help">>
    /\ Len(memories) = 1
    /\ InSeq("help", convObj[1].participants)
    /\ SummaryIncludes(memories[1].summary, "help")
    /\ Cardinality({i \in 1..Len(memories[1].tags) : memories[1].tags[i] = "help"}) = 1
    /\ Cardinality({i \in 1..Len(memories[1].tags) : memories[1].tags[i] = "fix"}) = 1

\* C40: the Memory processConversation makes has importance 5 to 9; of a
\* conversation of two participants, as awaken() opens it, at most 8, and 8
\* only when it lasted 20 minutes or more and its transcript is longer than
\* 1000 characters.
C40_ImportanceFiveToNine ==
    ret.op = "processConversation" =>
        /\ memories[1].importance \in 5..9
        /\ Len(convObj[1].participants) = 2 =>
              /\ memories[1].importance <= 8
              /\ memories[1].importance = 8 =>
                    /\ convObj[1].endTime # NoTime
                    /\ (convObj[1].endTime - convObj[1].startTime) * TickMinutes >= 20
                    /\ RawLen(convObj[1].rawText) > 1000

====
